---- MODULE Spec2Model ----
(***************************************************************************)
(* Verification model of gosort (ascheel/gosort): the API server's upload  *)
(* path (cmd/api/api.go), the index layer (sortengine DB) and the path     *)
(* allocator (sortengine Engine.GetNewFilename).                           *)
(*                                                                         *)
(* Three specifications share the operators that model the code:           *)
(*   Spec       the server: concurrent uploads, insert faults, crashes     *)
(*   SpecIndex  the index alone: Insert / InsertBatch over every batch     *)
(*   SpecAlloc  the path allocator alone, one allocation at a time         *)
(***************************************************************************)
EXTENDS Integers, Sequences, FiniteSets, TLC

\* ------------------------------------------------------------------ bounds
MaxUploads  == 2    \* POST /file requests in one run of Spec
NumContents == 2    \* distinct byte contents clients upload
MaxCrashes  == 1    \* server crashes in one run of Spec
MaxFaults   == 1    \* injected I/O or database failures in one run
MaxBatchLen == 2    \* length of the batches SpecIndex submits
MaxFiles    == 3    \* files SpecAlloc places under the save-root
MaxNameLen  == 7    \* characters of a client-supplied filename (SpecPath)
MaxStreamLen == 104 \* KiB of an upload stream (SpecHash)
MaxRequests == 4    \* requests SpecQueue receives
UploadWorkers == 1  \* -upload-workers: W
RateLimit   == 1    \* -rate-limit: tokens per second
MaxMalformed == 1   \* requests of SpecQueue that fail before the queue
NumWorkers == 1     \* the client's -workers: goroutines per pool
MaxEntries == 2     \* entries of a directory the client walks
MaxBatches == 3     \* batches of one kind the client's phase 2 sends
NumHashes == 3      \* distinct full hashes among the client's candidates
MaxSends == 2       \* files the client's phase 3 hands to processFile
MaxChunks == 2      \* writes io.Copy needs for the file part of an upload
MaxCallers == 2     \* goroutines that call one BatchInsertBuffer
MaxGetters == 3     \* goroutines that call GetExiftool
MaxAdds == 4        \* records SpecBuffer passes to Add
MaxTicks == 4       \* ticks of the refill ticker in SpecLimiter
MaxCalls == 8       \* calls of Allow in SpecLimiter
SmallBatch == 2     \* the batchSize SpecBuffer gives NewBatchInsertBuffer

\* program constants
BatchSize == 100          \* NewBatchInsertBuffer(100)

DefaultBatchSize == 100   \* AddFilesToDBBatch: batchSize <= 0

\* lengths of streams are counted in KiB
BUFSIZE == 100            \* var BUFSIZE int64 = 102400

ReadBuf == 32             \* buf := make([]byte, 32*1024)

Uploads  == 1..MaxUploads

\* The byte contents clients upload.
Contents == { <<"bytes", k>> : k \in 1..NumContents }

\* ------------------------------------------------------------------ digests
\* A digest is modelled by the pair (algorithm, content): two digests are
\* equal iff same algorithm and same bytes (no collisions).
Md5(c) == <<"md5", c>>

Sha256(c) == <<"sha256", c>>

\* what is on disk while a temp file is still being written, and what two
\* writers of different content leave in one file
Partial == <<"partial", 0>>

Mixed == <<"mixed", 0>>

NoBytes == <<"none", 0>>

\* ------------------------------------------------------------------ times
\* A creation time is [ym, ds, ns]: year-month, day-and-clock-seconds within
\* the month, nanoseconds within the second.
TimeDirFormat(t) == <<t.ym>>

TimeFormat(t) == <<t.ym, t.ds>>

UploadTimes == { [ym |-> 1, ds |-> s, ns |-> 0] : s \in 1..2 }

UploadExts == {"jpg"}

\* ------------------------------------------------------------------ paths
\* filepath.Join(dirname, shortname): the canonical path of (t, ext, num);
\* tmp marks the ".download" suffix.
PathOf(t, ext, num) ==
  [dir |-> TimeDirFormat(t), base |-> TimeFormat(t), num |-> num, ext |-> ext, tmp |-> FALSE]

TmpOf(p) == [p EXCEPT !.tmp = TRUE]

VARIABLES
  up,         \* the server process is running
  pc,         \* per request: where its handler / worker stands
  media,      \* per request: the parsed Media and the bytes of the file part
  newFilename,\* per request: the path GetNewFilename returned
  fd,         \* per request: the inode its open temp file refers to
  resp,       \* per request: HTTP status written (0: none yet)
  fs,         \* save-root: path -> inode
  data,       \* inode -> bytes stored (a content, Partial or Mixed)
  index,      \* committed rows of the media table
  buffer,     \* BatchInsertBuffer.buffer
  batch,      \* per request: the copy its flush() took
  crashes,
  faults,
  conc,       \* history: pairs of requests that were in flight together
  lostAt,     \* history: per request, the step a crash killed it at
  epoch,      \* history: per request, the number of crashes before it arrived
  lastCall,   \* history: the last AddFilesToDBBatch / AddFileToDB call
  disk,       \* SpecAlloc: occupied canonical paths -> content
  placed,     \* SpecAlloc: history of allocations
  walk,       \* SpecPath: the last path GetNewFilename built, and what became of it
  hasher,     \* SpecHash: the stream being copied and the two digests' inputs
  queue,      \* SpecQueue: UploadQueue.queue, the buffered channel
  tokens,     \* SpecQueue: RateLimiter.tokens, the number of tokens in the channel
  req,        \* SpecQueue: per request, where its handler stands and its response
  worker,     \* SpecQueue: per worker, the request it is processing (0: none)
  srv,        \* SpecMain: the server process from NewDB to os.Exit
  cl,         \* SpecClient: ProcessDirectory, phase 1
  ph,         \* SpecBatch: ProcessDirectory, phases 2 and 3 up to the upload list
  snd,        \* SpecSend: processFile and SendFile
  bb,         \* SpecBuffer: a BatchInsertBuffer and the goroutines that call it
  et,         \* SpecExif: the global Exiftool and the callers of GetExiftool
  rl          \* SpecLimiter: history of the RateLimiter's ticks and Allow calls

vars == <<up, pc, media, newFilename, fd, resp, fs, data, index, buffer, batch,
          crashes, faults, conc, lostAt, epoch, lastCall, disk, placed,
          walk, hasher, queue, tokens, req, worker, srv, cl, ph, snd, bb, et, rl>>

uploadVars == <<up, pc, media, newFilename, fd, resp, fs, data, buffer, batch,
                crashes, faults, conc, lostAt, epoch>>

\* the state of the units that are driven on their own
procVars == <<srv, cl, ph, snd, bb, et, rl>>

unitVars == <<walk, hasher, queue, tokens, req, worker, procVars>>

\* what the steps of a process leave alone
baseVars == <<uploadVars, index, lastCall, disk, placed, walk, hasher, queue, tokens, req, worker>>

allocVars == <<disk, placed, unitVars>>

\* what the server's steps leave alone
otherVars == <<lastCall, disk, placed, unitVars>>

histVars == <<lostAt, epoch>>

NoMedia == [content |-> NoBytes, checksum |-> <<"none", 0>>, time |-> [ym |-> 0, ds |-> 0, ns |-> 0], ext |-> ""]

NoPath == [dir |-> <<0>>, base |-> <<0, 0>>, num |-> 0, ext |-> "", tmp |-> FALSE]

NoCall == [op |-> "none", before |-> {}, batch |-> <<>>, bs |-> 0, txf |-> [kind |-> "none", chunk |-> 0],
           rowf |-> {}, rowres |-> <<>>, err |-> FALSE]

NoAlloc == [op |-> "none", m |-> NoMedia, before |-> <<>>, path |-> NoPath]

NoWalk == [op |-> "none", name |-> <<>>, num |-> 0, path |-> <<>>]

NoSum == [err |-> FALSE, sum |-> <<"none", 0>>]

NoStream == [state |-> "closed", len |-> 0, bytesRead |-> 0, full |-> <<>>, pre |-> <<>>,
             crossed |-> FALSE, declared100k |-> <<"none", 0>>,
             actualChecksum |-> <<"none", 0>>, actualChecksum100k |-> <<"none", 0>>,
             checksum100k |-> <<"none", 0>>,
             short |-> NoSum, whole |-> NoSum, client |-> NoSum]

Requests == 1..MaxRequests

Workers == 1..UploadWorkers

NoRequest ==
  [pc |-> "idle", resp |-> 0, form |-> "none", blocking |-> TRUE, enq |-> "none",
   allowed |-> "none", runs |-> 0, signals |-> 0]

\* NewUploadQueue(workers, rateLimit): both channels' capacities
QueueCap == UploadWorkers * 2

\* pushFile: make(chan bool, 1)
ResponseChanCap == 1

\* Init: openDBWithRetry(3, 100*time.Millisecond)
MaxRetries == 3
RetryDelay == 100

\* the process is running
NoExit == <<"running">>

TokenCap == RateLimit * 2

\* main before NewEngineWithConfig. waiting, queued, adding and flushing count
\* the uploads whose handler is in Enqueue, that are in the queue, that a worker
\* holds before BatchInsertBuffer.Add and before BatchInsertBuffer.Flush;
\* inserted counts the records handed to AddFilesToDBBatch, sentClosed the
\* sends on the queue after it was closed.
NoServer ==
  [pc |-> "open", attempts |-> 0, retryDelay |-> RetryDelay, slept |-> <<>>,
   db |-> "none", prepared |-> FALSE, dbClosed |-> FALSE,
   accepting |-> FALSE, served |-> 0, waiting |-> 0, queued |-> 0,
   adding |-> 0, flushing |-> 0, buffered |-> 0, inserted |-> 0,
   workers |-> 0, queueOpen |-> FALSE, ticker |-> FALSE,
   timedOut |-> FALSE, etClosed |-> FALSE, exit |-> NoExit, sentClosed |-> 0]

ScanWorkers == 1..NumWorkers

\* ProcessDirectory before its goroutines are started
NoClient ==
  [pc |-> "start", walker |-> "idle",
   dirChan |-> <<>>, dirClosed |-> FALSE, visitedDirs |-> {},
   scan |-> [w \in ScanWorkers |-> [pc |-> "range", dir |-> "", entries |-> <<>>]],
   filesChan |-> <<>>, filesClosed |-> FALSE,
   hash |-> [w \in ScanWorkers |-> [pc |-> "range", out |-> <<>>]],
   resultsChan |-> <<>>, resultsClosed |-> FALSE, allFiles |-> <<>>,
   Errors |-> 0, TotalFiles |-> 0,
   cancelled |-> FALSE, scanned |-> <<>>, emitted |-> <<>>]

\* the hashes of the candidates
Hashes == 0..(NumHashes - 1)

NoPhases ==
  [pc |-> "none", n |-> 0, i |-> 0, full |-> {}, prefix |-> {},
   existsMap |-> [h \in Hashes |-> "unset"], exists100kMap |-> [h \in Hashes |-> "unset"],
   sent |-> <<>>, Skipped |-> {}, filesToUpload |-> <<>>]

\* processFile before SendFile is called. producer is the goroutine of
\* SendFile, left the writes of the file part still to come, pipe the state
\* of the io.Pipe, transport the state of httpClient.Do and of the
\* connection; failed records that the producer sent an error on errChan.
NoSend ==
  [pc |-> "none", producer |-> "none", left |-> 0, pipe |-> "none", errChan |-> <<>>,
   transport |-> "idle", status |-> 0, body |-> "none", result |-> "none", failed |-> FALSE,
   sent |-> 0, Uploaded |-> 0, Errors |-> 0, Processed |-> 0]

Callers == 1..MaxCallers

\* NewBatchInsertBuffer, api.go:64-69, and goroutines that have called nothing
NoBuffer ==
  [mu |-> 0, buffer |-> <<>>, batchSize |-> SmallBatch, added |-> 0, handed |-> <<>>,
   g |-> [c \in Callers |-> [pc |-> "idle", op |-> "none", rec |-> 0, batch |-> <<>>]]]

Getters == 1..MaxGetters

\* exiftool.go:9-14: the package's lock and `var et *Exiftool` (0: nil)
NoExif ==
  [et |-> 0, inner |-> <<>>, lock |-> 0, created |-> 0,
   g |-> [c \in Getters |-> [pc |-> "idle", got |-> 0]]]

\* NewRateLimiter, api.go:135-154: nothing ticked, nothing asked
NoLimiter == [ticks |-> 0, allowed |-> 0, denied |-> 0]

\* the units as main leaves them: nothing resolved or hashed, the queue
\* empty, the bucket filled, every worker waiting
InitUnits ==
  /\ walk = NoWalk
  /\ hasher = NoStream
  /\ queue = <<>>
  /\ tokens = TokenCap
  /\ req = [r \in Requests |-> NoRequest]
  /\ worker = [w \in Workers |-> 0]
  /\ srv = NoServer
  /\ cl = NoClient
  /\ ph = NoPhases
  /\ snd = NoSend
  /\ bb = NoBuffer
  /\ et = NoExif
  /\ rl = NoLimiter

\* ------------------------------------------------------------------ index
\* The row INSERT writes for a Media.
Row(m) == [checksum |-> m.checksum, create_date |-> m.time]

\* mutant: a probe that never finds the row
ChecksumExistsNever(idx, h) == FALSE

\* SELECT count(*) FROM media WHERE checksum = ?  ... result > 0
ChecksumExists(idx, h) == \E row \in idx : row.checksum = h

\* mutant: the insert without the UNIQUE constraint
InsertAlways(idx, row) == idx \cup {row}

\* INSERT OR IGNORE INTO media ... under the UNIQUE constraint on checksum:
\* a row whose checksum is present is skipped (0 rows affected).
InsertOrIgnore(idx, row) == IF ChecksumExists(idx, row.checksum) THEN idx ELSE idx \cup {row}

Min(a, b) == IF a < b THEN a ELSE b

Pad(res, n) == res \o [j \in 1..(n - Len(res)) |-> "none"]

\* The loop over the rows of one transaction (part_005:111-137). rowf is the
\* set of positions whose stmt.Exec returns an error. Yields the index as the
\* transaction sees it and, per row, "failed" | "ignored" | "inserted".
RECURSIVE ExecRows(_, _, _, _, _)
ExecRows(txidx, rows, i, rowf, res) ==
  IF i > Len(rows) THEN [idx |-> txidx, res |-> res]
  ELSE IF i \in rowf THEN ExecRows(txidx, rows, i + 1, rowf, Append(res, "failed"))
  ELSE IF InsertOrIgnore(txidx, rows[i]) = txidx
       THEN ExecRows(txidx, rows, i + 1, rowf, Append(res, "ignored"))
       ELSE ExecRows(InsertOrIgnore(txidx, rows[i]), rows, i + 1, rowf, Append(res, "inserted"))

Count(res, what) == Cardinality({j \in DOMAIN res : res[j] = what})

RolledBack(res) == [j \in DOMAIN res |-> IF res[j] = "inserted" THEN "rolledback" ELSE res[j]]

\* mutant: the chunk loop without the rollback when every insert failed
RECURSIVE BatchLoopCommitAlways(_, _, _, _, _, _, _)
BatchLoopCommitAlways(idx, list, bs, i, txf, rowf, res) ==
  IF i >= Len(list) THEN [index |-> idx, err |-> FALSE, rowres |-> res]
  ELSE
    LET end   == Min(i + bs, Len(list))
        chunk == SubSeq(list, i + 1, end)
        here  == txf.chunk = i \div bs
        ex    == ExecRows(idx, chunk, 1, {j - i : j \in rowf}, <<>>)
    IN  IF here /\ txf.kind \in {"begin", "prepare"}
          THEN [index |-> idx, err |-> TRUE, rowres |-> Pad(res, Len(list))]
        ELSE IF here /\ txf.kind = "commit"
          THEN [index |-> idx, err |-> TRUE, rowres |-> Pad(res \o RolledBack(ex.res), Len(list))]
        ELSE BatchLoopCommitAlways(ex.idx, list, bs, end, txf, rowf, res \o ex.res)

\* The loop over the chunks of mediaList (part_005:80-164), one transaction
\* per chunk. txf = [kind, chunk] is the transaction-level failure injected:
\* kind "begin" | "prepare" | "commit" in chunk number txf.chunk, or "none".
\* i is the 0-based start of the chunk; res the row results so far.
RECURSIVE BatchLoop(_, _, _, _, _, _, _)
BatchLoop(idx, list, bs, i, txf, rowf, res) ==
  IF i >= Len(list) THEN [index |-> idx, err |-> FALSE, rowres |-> res]
  ELSE
    LET end   == Min(i + bs, Len(list))
        chunk == SubSeq(list, i + 1, end)
        here  == txf.chunk = i \div bs
        ex    == ExecRows(idx, chunk, 1, {j - i : j \in rowf}, <<>>)
    IN  IF here /\ txf.kind \in {"begin", "prepare"}
          THEN [index |-> idx, err |-> TRUE, rowres |-> Pad(res, Len(list))]
        ELSE IF Count(ex.res, "inserted") = 0 /\ Count(ex.res, "failed") > 0
          THEN [index |-> idx, err |-> TRUE, rowres |-> Pad(res \o ex.res, Len(list))]
        ELSE IF here /\ txf.kind = "commit"
          THEN [index |-> idx, err |-> TRUE, rowres |-> Pad(res \o RolledBack(ex.res), Len(list))]
        ELSE BatchLoop(ex.idx, list, bs, end, txf, rowf, res \o ex.res)

\* DB.AddFilesToDBBatch(mediaList, batchSize): [index, err, rowres].
AddFilesToDBBatch(idx, mediaList, batchSize, txf, rowf) ==
  IF Len(mediaList) = 0 THEN [index |-> idx, err |-> FALSE, rowres |-> <<>>]
  ELSE BatchLoop(idx, mediaList, IF batchSize <= 0 THEN DefaultBatchSize ELSE batchSize,
                 0, txf, rowf, <<>>)

\* DB.AddFileToDB(media): the plain INSERT; the UNIQUE constraint rejects a
\* checksum that is present, and Exec may fail for any other reason.
AddFileToDB(idx, row, fail) ==
  IF fail \/ ChecksumExists(idx, row.checksum)
    THEN [index |-> idx, err |-> TRUE, rowres |-> <<"failed">>]
    ELSE [index |-> idx \cup {row}, err |-> FALSE, rowres |-> <<"inserted">>]

NoTxf == [kind |-> "none", chunk |-> 0]

\* ------------------------------------------------------------------ allocator
\* mutant: the first candidate is returned without looking at the disk
GetNewFilenameUnprobed(files, m, num) == [panic |-> FALSE, path |-> PathOf(m.time, m.ext, num)]

\* Engine.GetNewFilename: files maps each existing path to its bytes. The
\* loop tries num = 0, 1, 2, ...; an occupied candidate whose checksum()
\* (SHA-256 of the file) equals m.Checksum panics.
RECURSIVE GetNewFilenameFrom(_, _, _)
GetNewFilenameFrom(files, m, num) ==
  LET filename == PathOf(m.time, m.ext, num) IN
  IF filename \in DOMAIN files
    THEN IF m.checksum = Sha256(files[filename])
           THEN [panic |-> TRUE, path |-> filename]
           ELSE GetNewFilenameFrom(files, m, num + 1)
    ELSE [panic |-> FALSE, path |-> filename]

GetNewFilename(files, m) == GetNewFilenameFrom(files, m, 0)

\* ------------------------------------------------------------------ files
\* The save-root as paths with their bytes.
Files == [p \in DOMAIN fs |-> data[fs[p]]]

Remove(f, p) == [q \in DOMAIN f \ {p} |-> f[q]]

\* safeRemoveFile(filename, 3): os.Remove, retried; fail: every try failed.
SafeRemoveFile(f, p, fail) == IF fail THEN f ELSE Remove(f, p)

\* os.Rename(old, new): new now names old's inode, replacing what was there.
Rename(f, old, new) ==
  [q \in (DOMAIN f \ {old}) \cup {new} |-> IF q = new THEN f[old] ELSE f[q]]

\* mutant: the startup scan removes nothing
CleanupNothing(f) == f

\* cleanupTempFiles(saveDir): unlink every path that ends in ".download".
CleanupTempFiles(f) == [q \in {p \in DOMAIN f : ~p.tmp} |-> f[q]]

\* What a complete write of bytes c leaves in an inode that held d: another
\* writer's bytes in the same inode may survive in part.
WriteOutcomes(d, c) == IF d \in {Partial, c} THEN {c} ELSE {c, Mixed}

\* ------------------------------------------------------------------ server
\* What a client may declare as media.Checksum.
Declared == { Md5(c) : c \in Contents }

InFlight == { s \in Uploads : pc[s] \notin {"idle", "done", "lost"} }

Tmp(r) == TmpOf(newFilename[r])

Goto(r, where) == pc' = [pc EXCEPT ![r] = where]

Respond(r, code) ==
  /\ pc' = [pc EXCEPT ![r] = "done"]
  /\ resp' = [resp EXCEPT ![r] = code]

\* mutant: the response without the removal of the temp file
RespondOnly(r, code, used) ==
  /\ fs' = fs
  /\ faults' = faults + used
  /\ Respond(r, code)

\* safeRemoveFile(tmpFilename, 3) followed by the response; used faults were
\* already injected by the step.
UnlinkAndRespond(r, code, used) ==
  \E rmfail \in BOOLEAN :
    /\ rmfail => faults + used < MaxFaults
    /\ fs' = SafeRemoveFile(fs, Tmp(r), rmfail)
    /\ faults' = faults + used + (IF rmfail THEN 1 ELSE 0)
    /\ Respond(r, code)

InitUpload ==
  /\ up = TRUE
  /\ pc = [r \in Uploads |-> "idle"]
  /\ media = [r \in Uploads |-> NoMedia]
  /\ newFilename = [r \in Uploads |-> NoPath]
  /\ fd = [r \in Uploads |-> 0]
  /\ resp = [r \in Uploads |-> 0]
  /\ fs = <<>>
  /\ data = [r \in Uploads |-> NoBytes]
  /\ buffer = <<>>
  /\ batch = [r \in Uploads |-> <<>>]
  /\ crashes = 0
  /\ faults = 0
  /\ conc = {}
  /\ lostAt = [r \in Uploads |-> "none"]
  /\ epoch = [r \in Uploads |-> 0]

\* pushFile (api.go:290-365): parse, pre-probe, enqueue. Requests are numbered
\* in arrival order. qerr: the probe's query fails and is read as "not there".
PushFile(r) ==
  /\ up /\ pc[r] = "idle"
  /\ \A s \in Uploads : s < r => pc[s] # "idle"
  /\ \E c \in Contents, d \in Declared, t \in UploadTimes, e \in UploadExts, qerr \in BOOLEAN :
       /\ qerr => faults < MaxFaults /\ ChecksumExists(index, d)
       /\ faults' = faults + (IF qerr THEN 1 ELSE 0)
       /\ media' = [media EXCEPT ![r] = [content |-> c, checksum |-> d, time |-> t, ext |-> e]]
       /\ IF ChecksumExists(index, d) /\ ~qerr
            THEN Respond(r, 409)
            ELSE Goto(r, "alloc") /\ UNCHANGED resp
  /\ conc' = conc \cup { {r, s} : s \in InFlight }
  /\ epoch' = [epoch EXCEPT ![r] = crashes]
  /\ UNCHANGED <<up, newFilename, fd, fs, data, index, buffer, batch, crashes, lostAt>>
  /\ UNCHANGED otherVars

\* processUploadRequest, api.go:374-375: allocate the path. A panic in the
\* worker goroutine is not recovered: the process dies.
Allocate(r) ==
  /\ up /\ pc[r] = "alloc"
  /\ LET got == GetNewFilename(Files, media[r]) IN
       /\ ~got.panic
       /\ newFilename' = [newFilename EXCEPT ![r] = got.path]
  /\ Goto(r, "create")
  /\ UNCHANGED <<up, media, fd, resp, fs, data, index, buffer, batch, crashes, faults, conc, lostAt, epoch>>
  /\ UNCHANGED otherVars

\* api.go:390-396: os.Create(tmpFilename) creates the file or truncates it.
Create(r) ==
  /\ up /\ pc[r] = "create"
  /\ \/ /\ faults < MaxFaults
        /\ faults' = faults + 1
        /\ Respond(r, 500)
        /\ UNCHANGED <<fs, data, fd>>
     \/ /\ LET ino == IF Tmp(r) \in DOMAIN fs THEN fs[Tmp(r)] ELSE r IN
             /\ fs' = [q \in DOMAIN fs \cup {Tmp(r)} |-> IF q = Tmp(r) THEN ino ELSE fs[q]]
             /\ data' = [data EXCEPT ![ino] = Partial]
             /\ fd' = [fd EXCEPT ![r] = ino]
        /\ Goto(r, "write")
        /\ UNCHANGED <<resp, faults>>
  /\ UNCHANGED <<up, media, newFilename, index, buffer, batch, crashes, conc, lostAt, epoch>>
  /\ UNCHANGED otherVars

\* api.go:410-477: the copy loop, Close, and the verification of the digest
\* computed from the stream against media.Checksum.
Write(r) ==
  /\ up /\ pc[r] = "write"
  /\ \/ /\ faults < MaxFaults
        /\ UnlinkAndRespond(r, 500, 1)
        /\ UNCHANGED data
     \/ /\ \E out \in WriteOutcomes(data[fd[r]], media[r].content) :
             data' = [data EXCEPT ![fd[r]] = out]
        /\ IF Md5(media[r].content) # media[r].checksum
             THEN UnlinkAndRespond(r, 400, 0)
             ELSE Goto(r, "probe") /\ UNCHANGED <<resp, fs, faults>>
  /\ UNCHANGED <<up, media, newFilename, fd, index, buffer, batch, crashes, conc, lostAt, epoch>>
  /\ UNCHANGED otherVars

\* api.go:482-489: the probe after the write.
Probe(r) ==
  /\ up /\ pc[r] = "probe"
  /\ \E qerr \in BOOLEAN :
       /\ qerr => faults < MaxFaults /\ ChecksumExists(index, Md5(media[r].content))
       /\ IF ChecksumExists(index, Md5(media[r].content)) /\ ~qerr
            THEN UnlinkAndRespond(r, 409, 0)
            ELSE /\ Goto(r, "add")
                 /\ faults' = faults + (IF qerr THEN 1 ELSE 0)
                 /\ UNCHANGED <<resp, fs>>
  /\ UNCHANGED <<up, media, newFilename, fd, data, index, buffer, batch, crashes, conc, lostAt, epoch>>
  /\ UNCHANGED otherVars

\* BatchInsertBuffer.Add (api.go:73-85) up to the database call of flush():
\* append under the mutex; a full buffer is copied, cleared and the mutex
\* released.
Add(r) ==
  /\ up /\ pc[r] = "add"
  /\ LET b == Append(buffer, Row(media[r])) IN
       IF Len(b) >= BatchSize
         THEN /\ batch' = [batch EXCEPT ![r] = b]
              /\ buffer' = <<>>
              /\ Goto(r, "add_db")
         ELSE /\ buffer' = b
              /\ Goto(r, "flush")
              /\ UNCHANGED batch
  /\ UNCHANGED <<up, media, newFilename, fd, resp, fs, data, index, crashes, faults, conc, lostAt, epoch>>
  /\ UNCHANGED otherVars

\* BatchInsertBuffer.Flush (api.go:88-108) up to the database call: an empty
\* buffer returns nil at once.
Flush(r) ==
  /\ up /\ pc[r] = "flush"
  /\ IF Len(buffer) = 0
       THEN Goto(r, "rename") /\ UNCHANGED <<buffer, batch>>
       ELSE /\ batch' = [batch EXCEPT ![r] = buffer]
            /\ buffer' = <<>>
            /\ Goto(r, "flush_db")
  /\ UNCHANGED <<up, media, newFilename, fd, resp, fs, data, index, crashes, faults, conc, lostAt, epoch>>
  /\ UNCHANGED otherVars

TxFaults == { [kind |-> k, chunk |-> 0] : k \in {"none", "begin", "prepare", "commit"} }

Cost(txf, rowf) == (IF txf.kind = "none" THEN 0 ELSE 1) + Cardinality(rowf)

\* flush(), api.go:109-112, and the caller's error check (api.go:498-513):
\* the batch goes to AddFilesToDBBatch outside the mutex.
InsertBatch(r) ==
  /\ up /\ pc[r] \in {"add_db", "flush_db"}
  /\ \E txf \in TxFaults, rowf \in SUBSET (1..Len(batch[r])) :
       /\ faults + Cost(txf, rowf) <= MaxFaults
       /\ LET got == AddFilesToDBBatch(index, batch[r], BatchSize, txf, rowf) IN
            /\ index' = got.index
            /\ IF got.err
                 THEN UnlinkAndRespond(r, 500, Cost(txf, rowf))
                 ELSE /\ Goto(r, IF pc[r] = "add_db" THEN "flush" ELSE "rename")
                      /\ faults' = faults + Cost(txf, rowf)
                      /\ UNCHANGED <<resp, fs>>
  /\ batch' = [batch EXCEPT ![r] = <<>>]
  /\ UNCHANGED <<up, media, newFilename, fd, data, buffer, crashes, conc, lostAt, epoch>>
  /\ UNCHANGED otherVars

\* mutant: a failed rename cleans up like the other failures do
PublishOrUnlink(r) ==
  /\ up /\ pc[r] = "rename"
  /\ \/ /\ Tmp(r) \in DOMAIN fs
        /\ faults < MaxFaults
        /\ faults' = faults + 1
        /\ Respond(r, 500)
        /\ fs' = Remove(fs, Tmp(r))
     \/ /\ Tmp(r) \in DOMAIN fs
        /\ fs' = Rename(fs, Tmp(r), newFilename[r])
        /\ Respond(r, 200)
        /\ UNCHANGED faults
  /\ UNCHANGED <<up, media, newFilename, fd, data, index, buffer, batch, crashes, conc, lostAt, epoch>>
  /\ UNCHANGED otherVars

\* api.go:517-536: os.Rename(tmpFilename, newFilename) and the response.
Publish(r) ==
  /\ up /\ pc[r] = "rename"
  /\ \/ /\ Tmp(r) \notin DOMAIN fs
        /\ Respond(r, 500)
        /\ UNCHANGED <<fs, faults>>
     \/ /\ Tmp(r) \in DOMAIN fs
        /\ faults < MaxFaults
        /\ faults' = faults + 1
        /\ Respond(r, 500)
        /\ UNCHANGED fs
     \/ /\ Tmp(r) \in DOMAIN fs
        /\ fs' = Rename(fs, Tmp(r), newFilename[r])
        /\ Respond(r, 200)
        /\ UNCHANGED faults
  /\ UNCHANGED <<up, media, newFilename, fd, data, index, buffer, batch, crashes, conc, lostAt, epoch>>
  /\ UNCHANGED otherVars

\* The process dies (kill, power loss, unrecovered panic): memory is lost,
\* the save-root and the committed index stay.
Crash ==
  /\ up /\ crashes < MaxCrashes
  /\ up' = FALSE
  /\ crashes' = crashes + 1
  /\ pc' = [r \in Uploads |-> IF r \in InFlight THEN "lost" ELSE pc[r]]
  /\ lostAt' = [r \in Uploads |-> IF r \in InFlight THEN pc[r] ELSE lostAt[r]]
  /\ buffer' = <<>>
  /\ batch' = [r \in Uploads |-> <<>>]
  /\ fd' = [r \in Uploads |-> 0]
  /\ UNCHANGED <<media, newFilename, resp, fs, data, index, faults, conc, epoch>>
  /\ UNCHANGED otherVars

\* main (api.go:720-764): the index is opened, the batch buffer is new,
\* cleanupTempFiles runs, then the server listens.
Startup ==
  /\ ~up
  /\ up' = TRUE
  /\ fs' = CleanupTempFiles(fs)
  /\ UNCHANGED <<pc, media, newFilename, fd, resp, data, index, buffer, batch,
                 crashes, faults, conc, lostAt, epoch>>
  /\ UNCHANGED otherVars

Init ==
  /\ InitUpload
  /\ InitUnits
  /\ index = {}
  /\ lastCall = NoCall
  /\ disk = <<>>
  /\ placed = NoAlloc

Next ==
  \/ \E r \in Uploads : PushFile(r)
  \/ \E r \in Uploads : Allocate(r)
  \/ \E r \in Uploads : Create(r)
  \/ \E r \in Uploads : Write(r)
  \/ \E r \in Uploads : Probe(r)
  \/ \E r \in Uploads : Add(r)
  \/ \E r \in Uploads : Flush(r)
  \/ \E r \in Uploads : InsertBatch(r)
  \/ \E r \in Uploads : Publish(r)
  \/ Crash
  \/ Startup

Spec == Init /\ [][Next]_vars

\* ------------------------------------------------------------------ SpecIndex
\* The index driven directly: every Insert and InsertBatch call over small
\* rows, batches, batch sizes and failures. SQLite runs write transactions
\* one at a time, so calls of concurrent callers are a sequence of calls.
\* lastCall records one call of the sequence, the observed one, with the
\* index it found; the run ends with it.
IndexRows == { [checksum |-> Md5(c), create_date |-> t] : c \in Contents, t \in UploadTimes }

IndexBatches == UNION { [1..n -> IndexRows] : n \in 0..MaxBatchLen }

IndexBatchSizes == {0, 1, BatchSize}

EffectiveBatchSize(bs) == IF bs <= 0 THEN DefaultBatchSize ELSE bs

\* the failures that can strike a call: a transaction-level failure in a
\* chunk the list has, row failures at positions the list has
IndexTxFaults(list, bs) ==
  { [kind |-> k, chunk |-> n] : k \in {"begin", "prepare", "commit"},
                                n \in { x \in 0..MaxBatchLen : x * EffectiveBatchSize(bs) < Len(list) } }
    \cup {NoTxf}

InitIndex ==
  /\ InitUpload
  /\ InitUnits
  /\ index = {}
  /\ lastCall = NoCall
  /\ disk = <<>>
  /\ placed = NoAlloc

Observe(call) == lastCall' \in {NoCall, call}

IndexInsert ==
  /\ lastCall = NoCall
  /\ \E row \in IndexRows, fail \in BOOLEAN :
       LET got == AddFileToDB(index, row, fail) IN
         /\ index' = got.index
         /\ Observe([op |-> "Insert", before |-> index, batch |-> <<row>>, bs |-> 1,
                     txf |-> NoTxf, rowf |-> IF fail THEN {1} ELSE {},
                     rowres |-> got.rowres, err |-> got.err])
  /\ UNCHANGED uploadVars
  /\ UNCHANGED procVars
  /\ UNCHANGED allocVars

IndexInsertBatch ==
  /\ lastCall = NoCall
  /\ \E list \in IndexBatches, bs \in IndexBatchSizes :
       \E txf \in IndexTxFaults(list, bs), rowf \in SUBSET (1..Len(list)) :
         LET got == AddFilesToDBBatch(index, list, bs, txf, rowf) IN
           /\ index' = got.index
           /\ Observe([op |-> "InsertBatch", before |-> index, batch |-> list, bs |-> bs,
                       txf |-> txf, rowf |-> rowf, rowres |-> got.rowres, err |-> got.err])
  /\ UNCHANGED uploadVars
  /\ UNCHANGED procVars
  /\ UNCHANGED allocVars

NextIndex == IndexInsert \/ IndexInsertBatch

SpecIndex == InitIndex /\ [][NextIndex]_vars

\* ------------------------------------------------------------------ SpecAlloc
\* The allocator alone: one upload at a time gets its path from
\* GetNewFilename and is published there before the next one asks.
AllocTimes ==
  { [ym |-> 1, ds |-> 1, ns |-> 0], [ym |-> 1, ds |-> 1, ns |-> 1],
    [ym |-> 1, ds |-> 2, ns |-> 0], [ym |-> 2, ds |-> 1, ns |-> 0] }

AllocExts == {"jpg", "png"}

AllocMedia ==
  { [content |-> c, checksum |-> h, time |-> t, ext |-> e] :
      c \in Contents, h \in { Md5(x) : x \in Contents } \cup { Sha256(x) : x \in Contents },
      t \in AllocTimes, e \in AllocExts }

InitAlloc ==
  /\ InitUpload
  /\ InitUnits
  /\ index = {}
  /\ lastCall = NoCall
  /\ disk = <<>>
  /\ placed = NoAlloc

\* GetNewFilename returns; the file is written and renamed to the path.
Place ==
  /\ Cardinality(DOMAIN disk) < MaxFiles
  /\ \E m \in AllocMedia :
       LET got == GetNewFilename(disk, m) IN
         /\ ~got.panic
         /\ disk' = [q \in DOMAIN disk \cup {got.path} |-> IF q = got.path THEN m.content ELSE disk[q]]
         /\ placed' = [op |-> "placed", m |-> m, before |-> disk, path |-> got.path]
  /\ UNCHANGED uploadVars
  /\ UNCHANGED procVars
  /\ UNCHANGED <<index, lastCall, unitVars>>

\* GetNewFilename panics at an occupied candidate.
AllocPanic ==
  /\ \E m \in AllocMedia :
       LET got == GetNewFilename(disk, m) IN
         /\ got.panic
         /\ placed' = [op |-> "panic", m |-> m, before |-> disk, path |-> got.path]
  /\ UNCHANGED disk
  /\ UNCHANGED uploadVars
  /\ UNCHANGED procVars
  /\ UNCHANGED <<index, lastCall, unitVars>>

NextAlloc == Place \/ AllocPanic

SpecAlloc == InitAlloc /\ [][NextAlloc]_vars

\* ------------------------------------------------------------------ SpecPath
\* GetNewFilename's path for every filename a client can put into the media
\* JSON. A string is a sequence of characters; "m" stands for the formatted
\* year-month and "t" for the formatted time, which hold digits, '-', ' ' and
\* '.', never a separator.
Chars == {"a", ".", "/"}

Names == UNION { [1..n -> Chars] : n \in 0..MaxNameLen }

\* Config.Server.SaveDir
SaveDir == <<"/", "s">>

\* filepath.Ext (Unix): the suffix from the last dot of the last element.
RECURSIVE ExtFrom(_, _)
ExtFrom(path, i) ==
  IF i < 1 \/ path[i] = "/" THEN <<>>
  ELSE IF path[i] = "." THEN SubSeq(path, i, Len(path))
  ELSE ExtFrom(path, i - 1)

\* Media.Ext(): filepath.Ext(m.Filename) without its dot.
Ext(name) ==
  LET ext == ExtFrom(name, Len(name)) IN
  IF Len(ext) < 2 THEN <<>> ELSE Tail(ext)

\* The elements of a path between its separators.
RECURSIVE Split(_, _, _, _)
Split(str, i, cur, acc) ==
  IF i > Len(str) THEN Append(acc, cur)
  ELSE IF str[i] = "/" THEN Split(str, i + 1, <<>>, Append(acc, cur))
  ELSE Split(str, i + 1, Append(cur, str[i]), acc)

\* filepath.Clean of a rooted path, as its elements: "" and "." are dropped,
\* ".." removes the element before it and stays at the root.
RECURSIVE CleanFrom(_, _, _)
CleanFrom(segs, i, out) ==
  IF i > Len(segs) THEN out
  ELSE IF segs[i] \in {<<>>, <<".">>} THEN CleanFrom(segs, i + 1, out)
  ELSE IF segs[i] = <<".", ".">>
    THEN CleanFrom(segs, i + 1, IF out = <<>> THEN out ELSE SubSeq(out, 1, Len(out) - 1))
  ELSE CleanFrom(segs, i + 1, Append(out, segs[i]))

Clean(str) == CleanFrom(Split(str, 1, <<>>, <<>>), 1, <<>>)

\* the string of a cleaned rooted path
RECURSIVE Render(_, _)
Render(segs, i) ==
  IF segs = <<>> THEN <<"/">>
  ELSE IF i > Len(segs) THEN <<>>
  ELSE <<"/">> \o segs[i] \o Render(segs, i + 1)

\* filepath.Join(a, b) and filepath.Abs of a rooted path
Join(a, b) == Render(Clean(a \o <<"/">> \o b), 1)

Abs(str) == Render(Clean(str), 1)

\* strings.HasPrefix
HasPrefix(str, prefix) ==
  Len(prefix) <= Len(str) /\ SubSeq(str, 1, Len(prefix)) = prefix

\* mutant: the client's filename joined as it came, and no check of the result
GetNewFilenameTrusting(name, num) ==
  [op |-> "returned", name |-> name, num |-> num,
   path |-> Join(Join(SaveDir, <<"m">>), <<"t", ".">> \o name)]

\* engine.go:60-93 for the candidate number num (0: no suffix; "n" stands for
\* the decimal suffix otherwise): the path and whether the check lets it pass.
GetNewFilenamePath(name, num) ==
  LET dirname   == Join(SaveDir, <<"m">>)
      shortname == <<"t">> \o (IF num > 0 THEN <<".", "n">> ELSE <<>>) \o <<".">> \o Ext(name)
      filename  == Join(dirname, shortname)
  IN  [op |-> IF HasPrefix(Abs(filename), Abs(SaveDir)) THEN "returned" ELSE "traversal",
       name |-> name, num |-> num, path |-> filename]

InitPath ==
  /\ InitUpload
  /\ InitUnits
  /\ index = {}
  /\ lastCall = NoCall
  /\ disk = <<>>
  /\ placed = NoAlloc

\* one call of GetNewFilename, up to the probe of candidate num; the run
\* ends with it
Resolve ==
  /\ walk = NoWalk
  /\ \E name \in Names, num \in 0..1 : walk' = GetNewFilenamePath(name, num)
  /\ UNCHANGED uploadVars
  /\ UNCHANGED procVars
  /\ UNCHANGED <<index, lastCall, disk, placed, hasher, queue, tokens, req, worker>>

NextPath == Resolve

SpecPath == InitPath /\ [][NextPath]_vars

\* ------------------------------------------------------------------ SpecHash
\* The digests of one byte stream. The stream's bytes are told apart by their
\* position: Bytes(a, b) are the bytes after the first a up to the b-th, and a
\* digest is the pair of its algorithm and the bytes written to it.
Bytes(a, b) == [i \in 1..(b - a) |-> a + i]

\* mutant: the prefix digest is fed whole chunks only
Hash100kWriteWhole(pre, bytesRead, nr) ==
  IF bytesRead <= BUFSIZE THEN pre \o Bytes(bytesRead - nr, bytesRead) ELSE pre

\* api.go:434-444: what the chunk of nr bytes that ends at bytesRead adds to
\* hash100k.
Hash100kWrite(pre, bytesRead, nr) ==
  IF bytesRead <= BUFSIZE THEN pre \o Bytes(bytesRead - nr, bytesRead)
  ELSE IF bytesRead - nr < BUFSIZE
    THEN LET remaining == BUFSIZE - (bytesRead - nr) IN
         IF remaining > 0
           THEN pre \o SubSeq(Bytes(bytesRead - nr, bytesRead), 1, remaining)
           ELSE pre
  ELSE pre

\* io.CopyN(h, f, n) on a file of len bytes: fewer than n bytes is io.EOF.
CopyN(len, n) ==
  IF len < n THEN [err |-> TRUE, sum |-> <<"none", 0>>]
  ELSE [err |-> FALSE, sum |-> Md5(Bytes(0, n))]

\* sortengine.Checksum(filename, short) on a file of len bytes.
Checksum(len, short) ==
  IF short THEN CopyN(len, BUFSIZE)
  ELSE [err |-> FALSE, sum |-> Md5(Bytes(0, len))]

\* the client's checksum100k(filename): BUFSIZE is cut to the file's size.
ClientChecksum100k(len) == CopyN(len, IF len < BUFSIZE THEN len ELSE BUFSIZE)

StreamLens == 0..MaxStreamLen

InitHash ==
  /\ InitUpload
  /\ InitUnits
  /\ index = {}
  /\ lastCall = NoCall
  /\ disk = <<>>
  /\ placed = NoAlloc

\* api.go:381-408: the upload is opened; the client declared some prefix hash.
Open ==
  /\ hasher = NoStream
  /\ \E len \in StreamLens, honest \in BOOLEAN :
       hasher' = [NoStream EXCEPT !.state = "copy", !.len = len,
                    !.declared100k = IF honest THEN Md5(Bytes(0, Min(len, BUFSIZE)))
                                     ELSE Md5(<<0>>)]
  /\ UNCHANGED uploadVars
  /\ UNCHANGED procVars
  /\ UNCHANGED <<index, lastCall, disk, placed, walk, queue, tokens, req, worker>>

\* api.go:410-445: one turn of the copy loop, src.Read returning nr bytes.
Read ==
  /\ hasher.state = "copy" /\ hasher.bytesRead < hasher.len
  /\ \E nr \in 1..Min(ReadBuf, hasher.len - hasher.bytesRead) :
       LET bytesRead == hasher.bytesRead + nr IN
         hasher' = [hasher EXCEPT
                      !.bytesRead = bytesRead,
                      !.full = @ \o Bytes(bytesRead - nr, bytesRead),
                      !.pre = Hash100kWrite(@, bytesRead, nr),
                      !.crossed = @ \/ (bytesRead > BUFSIZE /\ bytesRead - nr < BUFSIZE
                                          /\ bytesRead - nr > 0)]
  /\ UNCHANGED uploadVars
  /\ UNCHANGED procVars
  /\ UNCHANGED <<index, lastCall, disk, placed, walk, queue, tokens, req, worker>>

\* api.go:446-480: io.EOF ends the loop, the digests are summed and
\* media.Checksum100k is set.
Sum ==
  /\ hasher.state = "copy" /\ hasher.bytesRead = hasher.len
  /\ hasher' = [hasher EXCEPT !.state = "summed",
                  !.actualChecksum = Md5(hasher.full),
                  !.actualChecksum100k = Md5(hasher.pre),
                  !.checksum100k = Md5(hasher.pre)]
  /\ UNCHANGED uploadVars
  /\ UNCHANGED procVars
  /\ UNCHANGED <<index, lastCall, disk, placed, walk, queue, tokens, req, worker>>

\* Media.Init, SetChecksum and the client hash a file of len bytes.
HashFile ==
  /\ hasher = NoStream
  /\ \E len \in StreamLens :
       hasher' = [NoStream EXCEPT !.state = "filed", !.len = len,
                    !.short = Checksum(len, TRUE),
                    !.whole = Checksum(len, FALSE),
                    !.client = ClientChecksum100k(len)]
  /\ UNCHANGED uploadVars
  /\ UNCHANGED procVars
  /\ UNCHANGED <<index, lastCall, disk, placed, walk, queue, tokens, req, worker>>

NextHash == Open \/ Read \/ Sum \/ HashFile

SpecHash == InitHash /\ [][NextHash]_vars

\* ------------------------------------------------------------------ SpecQueue
\* pushFile, the upload queue, its workers and the rate limiter, with
\* processUploadRequest as one step that answers the request. Requests are
\* numbered in arrival order. Of a request: allowed is what the worker's call
\* of Allow returned, runs the number of calls of processUploadRequest, signals
\* the number of values sent on its ResponseChan.
Forms == {"ok", "badform", "nomedia", "badjson", "nofile"}

\* what processUploadRequest answers
ProcessCodes == {200, 400, 409, 500}

Malformed == { r \in Requests : req[r].form \notin {"none", "ok"} }

\* mutant: the ticker adds its token whether the bucket is full or not
RefillAlways(t) == t + 1

\* refill(), api.go:159-164: the send of a token, skipped when the bucket is
\* full.
Refill(t) == IF t < TokenCap THEN t + 1 ELSE t

\* mutant: the channel takes whatever is sent
HasSpaceAlways(q) == TRUE

\* `uq.queue <- req` can proceed: the channel's buffer is not full.
HasSpace(q) == Len(q) < QueueCap

\* c.JSON by a worker: the request has its answer, unless pushFile answered
\* 408 before.
Answer(rq, code) == [rq EXCEPT !.pc = "answered", !.resp = IF @ = 0 THEN code ELSE @]

\* mutant: the response channel has no buffer, the send needs the handler to
\* be receiving
CanSignalUnbuffered(rq) == rq.signals < ResponseChanCap /\ rq.resp # 408

\* `req.ResponseChan <- v` can proceed: pushFile's channel, api.go:330, has
\* room. Nothing is received from it before pushFile returns.
CanSignal(rq) == rq.signals < ResponseChanCap

InitQueue ==
  /\ InitUpload
  /\ InitUnits
  /\ index = {}
  /\ lastCall = NoCall
  /\ disk = <<>>
  /\ placed = NoAlloc

\* pushFile, api.go:295-348: parse the form, probe the index, call Enqueue.
\* A missing media part makes form.Value["media"][0] panic; gin.Default()'s
\* Recovery answers 500. exists: the probe finds the declared checksum.
Handle(r) ==
  /\ req[r].pc = "idle"
  /\ \A s \in Requests : s < r => req[s].pc # "idle"
  /\ \E form \in Forms, exists \in BOOLEAN, blocking \in BOOLEAN :
       /\ form # "ok" => Cardinality(Malformed) < MaxMalformed /\ ~exists /\ blocking
       /\ exists => blocking
       /\ IF form \in {"badform", "badjson", "nofile"}
            THEN /\ req' = [req EXCEPT ![r] = [@ EXCEPT !.pc = "done", !.resp = 400, !.form = form]]
                 /\ UNCHANGED queue
          ELSE IF form = "nomedia"
            THEN /\ req' = [req EXCEPT ![r] = [@ EXCEPT !.pc = "done", !.resp = 500, !.form = form]]
                 /\ UNCHANGED queue
          ELSE IF exists
            THEN /\ req' = [req EXCEPT ![r] = [@ EXCEPT !.pc = "done", !.resp = 409, !.form = form]]
                 /\ UNCHANGED queue
          ELSE IF HasSpace(queue)
            THEN /\ queue' = Append(queue, r)
                 /\ req' = [req EXCEPT ![r] = [@ EXCEPT !.pc = "queued", !.form = form,
                                                       !.blocking = blocking, !.enq = "true"]]
          ELSE IF ~blocking
            THEN /\ req' = [req EXCEPT ![r] = [@ EXCEPT !.pc = "done", !.resp = 503, !.form = form,
                                                       !.blocking = blocking, !.enq = "false"]]
                 /\ UNCHANGED queue
          ELSE /\ req' = [req EXCEPT ![r] = [@ EXCEPT !.pc = "waiting", !.form = form]]
               /\ UNCHANGED queue
  /\ UNCHANGED uploadVars
  /\ UNCHANGED procVars
  /\ UNCHANGED <<index, lastCall, disk, placed, walk, hasher, tokens, worker>>

\* Enqueue, blocking, api.go:239-241: the send proceeds.
EnqueueSend(r) ==
  /\ req[r].pc = "waiting" /\ HasSpace(queue)
  /\ queue' = Append(queue, r)
  /\ req' = [req EXCEPT ![r].pc = "queued", ![r].enq = "true"]
  /\ UNCHANGED uploadVars
  /\ UNCHANGED procVars
  /\ UNCHANGED <<index, lastCall, disk, placed, walk, hasher, tokens, worker>>

\* Enqueue, blocking, api.go:242-243, and pushFile, api.go:341-348: the
\* timeout fires first and the handler answers 503.
EnqueueTimeout(r) ==
  /\ req[r].pc = "waiting"
  /\ req' = [req EXCEPT ![r].pc = "done", ![r].resp = 503, ![r].enq = "false"]
  /\ UNCHANGED uploadVars
  /\ UNCHANGED procVars
  /\ UNCHANGED <<index, lastCall, disk, placed, walk, hasher, queue, tokens, worker>>

\* worker, api.go:207: a free worker receives the head of the queue.
Dequeue(w) ==
  /\ worker[w] = 0 /\ queue # <<>>
  /\ worker' = [worker EXCEPT ![w] = Head(queue)]
  /\ queue' = Tail(queue)
  /\ req' = [req EXCEPT ![Head(queue)].pc = "taken"]
  /\ UNCHANGED uploadVars
  /\ UNCHANGED procVars
  /\ UNCHANGED <<index, lastCall, disk, placed, walk, hasher, tokens>>

\* worker, api.go:210-221, and Allow, api.go:169-176: a token is received, or
\* there is none and the request is answered 429.
\* mutant: the branch answers 429 and falls through to the upload handler
DenyAndGoOn(rq) == [Answer(rq, 429) EXCEPT !.pc = "processing", !.allowed = "no"]

\* worker, api.go:210-221: Allow returned false; the worker answers 429 and
\* goes on to the send on ResponseChan, then to the next request.
Deny(rq) == [Answer(rq, 429) EXCEPT !.allowed = "no"]

Allow(w) ==
  /\ worker[w] # 0 /\ req[worker[w]].pc = "taken"
  /\ IF tokens > 0
       THEN /\ tokens' = tokens - 1
            /\ req' = [req EXCEPT ![worker[w]].pc = "processing", ![worker[w]].allowed = "yes"]
       ELSE /\ req' = [req EXCEPT ![worker[w]] = Deny(@)]
            /\ UNCHANGED tokens
  /\ UNCHANGED uploadVars
  /\ UNCHANGED procVars
  /\ UNCHANGED <<index, lastCall, disk, placed, walk, hasher, queue, worker>>

\* worker, api.go:224, and processUploadRequest, api.go:369-536: the upload
\* handler runs and answers the request on every path.
Process(w) ==
  /\ worker[w] # 0 /\ req[worker[w]].pc = "processing"
  /\ \E code \in ProcessCodes :
       req' = [req EXCEPT ![worker[w]] = [Answer(@, code) EXCEPT !.runs = @ + 1]]
  /\ UNCHANGED uploadVars
  /\ UNCHANGED procVars
  /\ UNCHANGED <<index, lastCall, disk, placed, walk, hasher, queue, tokens, worker>>

\* worker, api.go:217-220 and 227-229: the send on the request's
\* ResponseChan; the worker goes back to the range over the queue. pushFile,
\* api.go:354-356, returns when it is still waiting.
Signal(w) ==
  /\ worker[w] # 0 /\ req[worker[w]].pc = "answered"
  /\ CanSignal(req[worker[w]])
  /\ req' = [req EXCEPT ![worker[w]].pc = "done", ![worker[w]].signals = @ + 1]
  /\ worker' = [worker EXCEPT ![w] = 0]
  /\ UNCHANGED uploadVars
  /\ UNCHANGED procVars
  /\ UNCHANGED <<index, lastCall, disk, placed, walk, hasher, queue, tokens>>

\* pushFile, api.go:353-364: the handler gives up waiting for its worker and
\* answers 408; the request stays where it is.
WaitTimeout(r) ==
  /\ req[r].pc \in {"queued", "taken", "processing", "answered"} /\ req[r].resp = 0
  /\ req' = [req EXCEPT ![r].resp = 408]
  /\ UNCHANGED uploadVars
  /\ UNCHANGED procVars
  /\ UNCHANGED <<index, lastCall, disk, placed, walk, hasher, queue, tokens, worker>>

\* refill, api.go:157-166: a tick of the ticker.
RefillTick ==
  /\ tokens' = Refill(tokens)
  /\ UNCHANGED uploadVars
  /\ UNCHANGED procVars
  /\ UNCHANGED <<index, lastCall, disk, placed, walk, hasher, queue, req, worker>>

NextQueue ==
  \/ \E r \in Requests : Handle(r)
  \/ \E r \in Requests : EnqueueSend(r)
  \/ \E r \in Requests : EnqueueTimeout(r)
  \/ \E w \in Workers : Dequeue(w)
  \/ \E w \in Workers : Allow(w)
  \/ \E w \in Workers : Process(w)
  \/ \E w \in Workers : Signal(w)
  \/ \E r \in Requests : WaitTimeout(r)
  \/ RefillTick

SpecQueue == InitQueue /\ [][NextQueue]_vars

\* ------------------------------------------------------------------- SpecMain
\* The server process: NewDB and its retries, the setup in main, requests
\* while it serves, and the shutdown after an interrupt.
InitMain ==
  /\ InitUpload
  /\ InitUnits
  /\ index = {}
  /\ lastCall = NoCall
  /\ disk = <<>>
  /\ placed = NoAlloc

\* the uploads a worker holds
Busy == srv.adding + srv.flushing

\* the handlers of pushFile that have not returned
InFlightHandlers == srv.waiting + srv.queued + Busy

\* openDBWithRetry, part_005:230-252, one pass of the loop: sql.Open and Ping
\* succeed, or they fail and the loop sleeps and doubles the delay unless
\* this was the last attempt. Init returns the error of the last attempt;
\* NewDB, part_005:33, drops what Init returns.
OpenDB ==
  /\ srv.pc = "open"
  /\ \E ok \in BOOLEAN :
       IF ok
         THEN srv' = [srv EXCEPT !.attempts = @ + 1, !.db = "open", !.pc = "init"]
       ELSE IF srv.attempts + 1 < MaxRetries
         THEN srv' = [srv EXCEPT !.attempts = @ + 1,
                                 !.slept = Append(@, srv.retryDelay),
                                 !.retryDelay = @ * 2]
       ELSE srv' = [srv EXCEPT !.attempts = @ + 1, !.db = "failed", !.pc = "setup"]
  /\ UNCHANGED <<baseVars, cl, ph, snd, bb, et, rl>>

\* Init, part_005:263-399: the tables and the three prepared statements. An
\* error on the way is returned, and dropped by NewDB.
InitDB ==
  /\ srv.pc = "init"
  /\ \E ok \in BOOLEAN : srv' = [srv EXCEPT !.prepared = ok, !.pc = "setup"]
  /\ UNCHANGED <<baseVars, cl, ph, snd, bb, et, rl>>

\* main, api.go:724-764: the queue and its workers, the ticker, checkSaveDir
\* (exit 1 when the directory is missing), the listener.
Setup ==
  /\ srv.pc = "setup"
  /\ \E saveDir \in BOOLEAN :
       IF saveDir
         THEN srv' = [srv EXCEPT !.pc = "serving", !.accepting = TRUE, !.queueOpen = TRUE,
                                 !.workers = UploadWorkers, !.ticker = TRUE]
         ELSE srv' = [srv EXCEPT !.pc = "exited", !.exit = <<"exit", 1>>,
                                 !.queueOpen = TRUE, !.workers = UploadWorkers, !.ticker = TRUE]
  /\ UNCHANGED <<baseVars, cl, ph, snd, bb, et, rl>>

\* A request is accepted. GET /version answers at once. pushFile, api.go:321,
\* calls ChecksumExists, which ends the process with log.Fatal when the
\* statement was never prepared (part_005:215-217); otherwise the handler goes
\* on to Enqueue.
Accept ==
  /\ srv.pc # "exited" /\ srv.accepting /\ srv.served < MaxRequests
  /\ \E route \in {"version", "file"} :
       IF route = "version"
         THEN srv' = [srv EXCEPT !.served = @ + 1]
       ELSE IF ~srv.prepared
         THEN srv' = [srv EXCEPT !.served = @ + 1, !.pc = "exited", !.exit = <<"exit", 1>>]
       ELSE srv' = [srv EXCEPT !.served = @ + 1, !.waiting = @ + 1]
  /\ UNCHANGED <<baseVars, cl, ph, snd, bb, et, rl>>

\* Enqueue, api.go:239-241: the send proceeds. A send on the closed channel
\* panics; gin's Recovery ends the handler.
EnqueueMain ==
  /\ srv.pc # "exited" /\ srv.waiting > 0
  /\ IF srv.queueOpen
       THEN /\ srv.queued < QueueCap
            /\ srv' = [srv EXCEPT !.waiting = @ - 1, !.queued = @ + 1]
       ELSE srv' = [srv EXCEPT !.waiting = @ - 1, !.sentClosed = @ + 1]
  /\ UNCHANGED <<baseVars, cl, ph, snd, bb, et, rl>>

\* worker, api.go:207: a worker that holds nothing receives from the queue.
Take ==
  /\ srv.pc # "exited" /\ srv.queued > 0 /\ Busy < srv.workers
  /\ srv' = [srv EXCEPT !.queued = @ - 1, !.adding = @ + 1]
  /\ UNCHANGED <<baseVars, cl, ph, snd, bb, et, rl>>

\* processUploadRequest up to batchInsertBuffer.Add, api.go:497, or to an
\* earlier return.
AddMain ==
  /\ srv.pc # "exited" /\ srv.adding > 0
  /\ \E early \in BOOLEAN :
       IF early
         THEN srv' = [srv EXCEPT !.adding = @ - 1]
         ELSE srv' = [srv EXCEPT !.adding = @ - 1, !.flushing = @ + 1, !.buffered = @ + 1]
  /\ UNCHANGED <<baseVars, cl, ph, snd, bb, et, rl>>

\* processUploadRequest from batchInsertBuffer.Flush, api.go:507, to its
\* return; flush, api.go:95-113, empties the buffer.
FlushMain ==
  /\ srv.pc # "exited" /\ srv.flushing > 0
  /\ srv' = [srv EXCEPT !.flushing = @ - 1, !.buffered = 0, !.inserted = @ + srv.buffered]
  /\ UNCHANGED <<baseVars, cl, ph, snd, bb, et, rl>>

\* worker, api.go:207 and 205: the range over the closed, empty queue ends
\* and the worker returns.
WorkerExit ==
  /\ srv.pc # "exited" /\ ~srv.queueOpen /\ srv.queued = 0 /\ Busy < srv.workers
  /\ srv' = [srv EXCEPT !.workers = @ - 1]
  /\ UNCHANGED <<baseVars, cl, ph, snd, bb, et, rl>>

\* main, api.go:767-778: the interrupt arrives; srv.Shutdown closes the
\* listener.
Interrupt ==
  /\ srv.pc = "serving"
  /\ srv' = [srv EXCEPT !.pc = "http_shutdown", !.accepting = FALSE]
  /\ UNCHANGED <<baseVars, cl, ph, snd, bb, et, rl>>

\* main, api.go:774-780: srv.Shutdown returns, when no handler is left or
\* when the 30 seconds of its context are over.
HttpShutdown ==
  /\ srv.pc = "http_shutdown"
  /\ \E timeout \in BOOLEAN :
       /\ ~timeout => InFlightHandlers = 0
       /\ srv' = [srv EXCEPT !.pc = "queue_shutdown", !.timedOut = timeout]
  /\ UNCHANGED <<baseVars, cl, ph, snd, bb, et, rl>>

\* Shutdown, api.go:258: close(uq.queue).
CloseQueue ==
  /\ srv.pc = "queue_shutdown"
  /\ srv' = [srv EXCEPT !.pc = "drain", !.queueOpen = FALSE]
  /\ UNCHANGED <<baseVars, cl, ph, snd, bb, et, rl>>

\* Shutdown, api.go:259-260: wg.Wait() returns and the ticker is stopped.
Drained ==
  /\ srv.pc = "drain" /\ srv.workers = 0
  /\ srv' = [srv EXCEPT !.pc = "flush", !.ticker = FALSE]
  /\ UNCHANGED <<baseVars, cl, ph, snd, bb, et, rl>>

\* main, api.go:786-788: batchInsertBuffer.Flush(); an error is printed.
FinalFlush ==
  /\ srv.pc = "flush"
  /\ srv' = [srv EXCEPT !.pc = "exiftool", !.buffered = 0, !.inserted = @ + srv.buffered]
  /\ UNCHANGED <<baseVars, cl, ph, snd, bb, et, rl>>

\* main, api.go:790-792: the exiftool process is closed and the server
\* exits. DbClose, part_005:169-182, has no caller.
Exit ==
  /\ srv.pc = "exiftool"
  /\ srv' = [srv EXCEPT !.pc = "exited", !.etClosed = TRUE, !.exit = <<"exit", 0>>]
  /\ UNCHANGED <<baseVars, cl, ph, snd, bb, et, rl>>

NextMain ==
  \/ OpenDB
  \/ InitDB
  \/ Setup
  \/ Accept
  \/ EnqueueMain
  \/ Take
  \/ AddMain
  \/ FlushMain
  \/ WorkerExit
  \/ Interrupt
  \/ HttpShutdown
  \/ CloseQueue
  \/ Drained
  \/ FinalFlush
  \/ Exit

SpecMain == InitMain /\ [][NextMain]_vars

\* ----------------------------------------------------------------- SpecClient
\* ProcessDirectory, phase 1: the walker (parallelWalkDir, scanDirectory), the
\* hashing workers and the wait of the main goroutine for both.
ImageExtensions == {"jpg", "jpeg", "png", "gif", "tif", "tiff", "bmp"}

VideoExtensions == {"mpg", "mp4", "mkv", "avi", "m4v", "mpeg", "mpeg4"}

\* GetDate: the fields it looks up, in its order
ImageFields == <<"DateTimeDigitized", "DateTimeOriginal", "DateTime">>

VideoFields ==
  <<"CreateDate", "MediaCreateDate", "TrackCreateDate",
    "ModifyDate", "MediaModifyDate", "TrackModifyDate">>

IsImage(ext) == ext \in ImageExtensions

IsVideo(ext) == ext \in VideoExtensions

IsRecognized(ext) == IsImage(ext) \/ IsVideo(ext)

\* the time value of a Media that was never set
ZeroTime == <<"zero">>

\* the modification time os.Stat reports for the file at path
ModTime(path) == <<"mtime", path>>

\* time.Parse of the value of a metadata field
Parsed(field) == <<"exif", field>>

\* the files of the walked tree: extension, size in KiB, and what exiftool
\* reports as pairs <<field, "ok" | "bad">> (bad: not in the layout GetDate
\* parses)
ClientExts == {"jpg", "mp4", "txt"}

ClientLens == {BUFSIZE - 1, BUFSIZE}

MetadataOf(ext) ==
  IF IsImage(ext)
    THEN { {}, {<<"DateTimeOriginal", "ok">>, <<"DateTime", "ok">>}, {<<"DateTimeDigitized", "bad">>} }
  ELSE IF IsVideo(ext)
    THEN { {}, {<<"MediaCreateDate", "ok">>, <<"ModifyDate", "ok">>}, {<<"CreateDate", "bad">>} }
  ELSE { {} }

FileEntries ==
  UNION { { [dir |-> FALSE, ext |-> e, len |-> n, meta |-> m] : n \in ClientLens, m \in MetadataOf(e) } :
          e \in ClientExts }

\* what Readdir can return for a directory: up to MaxEntries files; in the
\* root a subdirectory as well, or one subdirectory more than dirChan holds
SubDir == [dir |-> TRUE, ext |-> "", len |-> 0, meta |-> {}]

RECURSIVE Listings(_)
Listings(n) ==
  IF n = 0 THEN { <<>> }
  ELSE Listings(n - 1) \cup { Append(l, e) : l \in { k \in Listings(n - 1) : Len(k) = n - 1 }, e \in FileEntries }

ChanCap == NumWorkers * 2

Readdir(dirPath) ==
  IF dirPath = <<"root">>
    THEN Listings(MaxEntries) \cup { <<SubDir>> \o l : l \in Listings(MaxEntries - 1) }
         \cup { [k \in 1..(ChanCap + 1) |-> SubDir] }
    ELSE Listings(MaxEntries)

\* mutant: the entries of a directory get one path
EntryPathOfDir(dirPath, left) == Append(dirPath, 1)

\* filepath.Join(dirPath, entry.Name()) of the entry that is followed by
\* left - 1 entries in its listing: the names of one listing differ
EntryPath(dirPath, left) == Append(dirPath, left)

\* GetDate, part_004:243-282, on a Media whose Metadata and ModifiedDate are
\* set.
GetDate(m) ==
  LET fields == IF IsImage(m.ext) THEN ImageFields
                ELSE IF IsVideo(m.ext) THEN VideoFields ELSE <<>>
      present == { i \in DOMAIN fields : \E v \in {"ok", "bad"} : <<fields[i], v>> \in m.Metadata }
  IN IF present = {} THEN [date |-> m.ModifiedDate, err |-> FALSE]
     ELSE LET i == CHOOSE j \in present : \A k \in present : j <= k
          IN IF <<fields[i], "bad">> \in m.Metadata
               THEN [date |-> m.ModifiedDate, err |-> TRUE]
               ELSE [date |-> Parsed(fields[i]), err |-> FALSE]

\* Media.Init, part_004:189-222, on the file f at path: it returns at the
\* first error, GetMetadata's for a file that is neither image nor video,
\* Checksum(m.Filename, true)'s for a file shorter than BUFSIZE.
MediaInit(path, f) ==
  LET m0 == [Filename |-> path, ext |-> f.ext, Metadata |-> {}, Size |-> 0,
             ModifiedDate |-> ZeroTime, CreationDate |-> ZeroTime, err |-> TRUE]
      m1 == [m0 EXCEPT !.Metadata = f.meta, !.Size = f.len, !.ModifiedDate = ModTime(path)]
  IN IF ~IsRecognized(f.ext) THEN m0
     ELSE IF Checksum(f.len, TRUE).err THEN m1
     ELSE [m1 EXCEPT !.CreationDate = GetDate(m1).date, !.err = GetDate(m1).err]

\* NewMediaFile, part_004:121-131: the Media is returned whatever Init
\* returned.
NewMediaFile(path, f) == [MediaInit(path, f) EXCEPT !.err = FALSE]

ScanWgZero == \A w \in ScanWorkers : cl.scan[w].pc = "returned"

CollectWgZero == \A w \in ScanWorkers : cl.hash[w].pc = "returned"

InitClient ==
  /\ InitUpload
  /\ InitUnits
  /\ index = {}
  /\ lastCall = NoCall
  /\ disk = <<>>
  /\ placed = NoAlloc

\* ProcessDirectory, the main goroutine, client.go:859-963: it starts the
\* hashing workers and the walker, waits for the walker (walkWg.Wait), then
\* for the workers (collectWg.Wait), closes resultsChan and collects it.
ProcessDirectory ==
  /\ IF cl.pc = "start"
       THEN cl' = [cl EXCEPT !.pc = "wait_walk", !.walker = "started"]
     ELSE IF cl.pc = "wait_walk"
       THEN /\ cl.walker = "returned"
            /\ cl' = [cl EXCEPT !.pc = "wait_collect"]
     ELSE /\ cl.pc = "wait_collect"
          /\ CollectWgZero
          /\ cl' = [cl EXCEPT !.pc = "phase2", !.resultsClosed = TRUE,
                              !.allFiles = cl.resultsChan, !.resultsChan = <<>>,
                              !.TotalFiles = Len(cl.resultsChan)]
  /\ UNCHANGED <<baseVars, srv, ph, snd, bb, et, rl>>

\* parallelWalkDir, client.go:669-709, and the walker goroutine,
\* client.go:930-938: the root is sent to dirChan; scanWg.Wait() returns when
\* every scanning worker has returned, dirChan is closed, and the deferred
\* close(filesChan) runs.
ParallelWalkDir ==
  /\ IF cl.walker = "started"
       THEN cl' = [cl EXCEPT !.walker = "waiting", !.dirChan = Append(@, <<"root">>)]
       ELSE /\ cl.walker = "waiting"
            /\ ScanWgZero
            /\ cl' = [cl EXCEPT !.walker = "returned", !.dirClosed = TRUE, !.filesClosed = TRUE]
  /\ UNCHANGED <<baseVars, srv, ph, snd, bb, et, rl>>

\* scanDirectory, client.go:714-726: under visitedMu, a path is admitted when
\* the visited set does not hold it.
Admitted(visited, absPath) == absPath \notin visited

\* a scanning worker at `for dirPath := range dirChan`, client.go:685, and
\* scanDirectory up to the listing, client.go:713-770: it receives a
\* directory, or returns when dirChan is closed and empty. A directory seen
\* before, or one that cannot be read, has no entries to process. A worker
\* that finds the context done after the receive returns, client.go:686-688.
ScanRange(w) ==
  /\ cl.scan[w].pc = "range"
  /\ IF cl.dirChan # <<>>
       THEN LET d == Head(cl.dirChan) IN
            IF cl.cancelled
              THEN cl' = [cl EXCEPT !.dirChan = Tail(@), !.scan[w].pc = "returned"]
            ELSE IF Admitted(cl.visitedDirs, d)
              THEN \E entries \in Readdir(d) :
                     cl' = [cl EXCEPT !.dirChan = Tail(@), !.visitedDirs = @ \cup {d},
                                      !.scanned = Append(@, [dir |-> d, entries |-> entries]),
                                      !.scan[w] = [pc |-> IF entries = <<>> THEN "range" ELSE "entries",
                                                   dir |-> d, entries |-> entries]]
              ELSE cl' = [cl EXCEPT !.dirChan = Tail(@)]
       ELSE /\ cl.dirClosed
            /\ cl' = [cl EXCEPT !.scan[w].pc = "returned"]
  /\ UNCHANGED <<baseVars, srv, ph, snd, bb, et, rl>>

\* scanDirectory, client.go:773-797: the next entry is sent to dirChan or to
\* filesChan; the send waits for room in the channel, or for the context to
\* be done, and then scanDirectory returns. The context is also looked at
\* before each entry.
ScanEntry(w) ==
  /\ cl.scan[w].pc = "entries"
  /\ LET sc == cl.scan[w]
         e == Head(sc.entries)
         rest == [sc EXCEPT !.entries = Tail(@), !.pc = IF Tail(sc.entries) = <<>> THEN "range" ELSE "entries"]
         gaveUp == [sc EXCEPT !.entries = <<>>, !.pc = "range"]
         fullPath == EntryPath(sc.dir, Len(sc.entries))
     IN \E done \in BOOLEAN :
          IF done
            THEN /\ cl.cancelled
                 /\ cl' = [cl EXCEPT !.scan[w] = gaveUp]
          ELSE IF e.dir
            THEN /\ Len(cl.dirChan) < ChanCap
                 /\ cl' = [cl EXCEPT !.dirChan = Append(@, fullPath), !.scan[w] = rest]
          ELSE /\ Len(cl.filesChan) < ChanCap
               /\ cl' = [cl EXCEPT !.filesChan = Append(@, [Path |-> fullPath, Info |-> e]),
                                   !.emitted = Append(@, fullPath),
                                   !.scan[w] = rest]
  /\ UNCHANGED <<baseVars, srv, ph, snd, bb, et, rl>>

\* a hashing worker at `for fileInfo := range filesChan`, client.go:886-913:
\* it receives a file, or returns when filesChan is closed and empty. The
\* Media of NewMediaFile is never nil; SetChecksum reads the whole file and
\* checksum100k its head; a read error counts as an error. A worker that
\* finds the context done after the receive returns, client.go:887-889.
HashRange(w) ==
  /\ cl.pc # "start"
  /\ cl.hash[w].pc = "range"
  /\ IF cl.filesChan # <<>>
       THEN LET fileInfo == Head(cl.filesChan)
                mf == NewMediaFile(fileInfo.Path, fileInfo.Info)
            IN \E readable \in BOOLEAN :
                 IF cl.cancelled
                   THEN cl' = [cl EXCEPT !.filesChan = Tail(@), !.hash[w].pc = "returned"]
                 ELSE IF ~readable \/ Checksum(fileInfo.Info.len, FALSE).err
                    \/ ClientChecksum100k(fileInfo.Info.len).err
                   THEN cl' = [cl EXCEPT !.filesChan = Tail(@), !.Errors = @ + 1]
                   ELSE cl' = [cl EXCEPT !.filesChan = Tail(@), !.TotalFiles = @ + 1,
                                         !.hash[w] = [pc |-> "send",
                                                      out |-> <<[Path |-> fileInfo.Path, Media |-> mf]>>]]
       ELSE /\ cl.filesClosed
            /\ cl' = [cl EXCEPT !.hash[w].pc = "returned"]
  /\ UNCHANGED <<baseVars, srv, ph, snd, bb, et, rl>>

\* the hashing worker's send on resultsChan, client.go:915-920; the send
\* waits for room in the channel.
ResultSend(w) ==
  /\ cl.hash[w].pc = "send"
  /\ Len(cl.resultsChan) < ChanCap
  /\ cl' = [cl EXCEPT !.resultsChan = @ \o cl.hash[w].out,
                      !.hash[w] = [pc |-> "range", out |-> <<>>]]
  /\ UNCHANGED <<baseVars, srv, ph, snd, bb, et, rl>>

NextClient ==
  \/ ProcessDirectory
  \/ ParallelWalkDir
  \/ \E w \in ScanWorkers : ScanRange(w)
  \/ \E w \in ScanWorkers : ScanEntry(w)
  \/ \E w \in ScanWorkers : HashRange(w)
  \/ \E w \in ScanWorkers : ResultSend(w)

SpecClient == InitClient /\ [][NextClient]_vars

\* ----------------------------------------------------------------- SpecCancel
\* phase 1 with a context that is cancelled while the goroutines run.
Cancel ==
  /\ cl.pc \in {"wait_walk", "wait_collect"}
  /\ ~cl.cancelled
  /\ cl' = [cl EXCEPT !.cancelled = TRUE]
  /\ UNCHANGED <<baseVars, srv, ph, snd, bb, et, rl>>

NextCancel ==
  \/ Cancel
  \/ ProcessDirectory
  \/ ParallelWalkDir
  \/ \E w \in ScanWorkers : ScanRange(w)
  \/ \E w \in ScanWorkers : ScanEntry(w)
  \/ \E w \in ScanWorkers : HashRange(w)
  \/ \E w \in ScanWorkers : ResultSend(w)

SpecCancel == InitClient /\ [][NextCancel]_vars

\* ------------------------------------------------------------------ SpecBatch
\* ProcessDirectory from the collected candidates to the upload list: the
\* batch probes of phase 2 and the selection of phase 3. The candidates are
\* allFiles[1..n]; the hashes of a candidate are a function of its position.
ClientBatchSize == 100

\* file.Checksum and file.Checksum100k of allFiles[p]: equal files have
\* equal hashes, and files that differ may share their first 100 KiB
ChecksumOf(p) == p % NumHashes

Checksum100kOf(p) == (p % NumHashes) % 2

ListLens ==
  { k * ClientBatchSize + d : k \in 0..(MaxBatches - 1), d \in {0, 1, ClientBatchSize - 1} }

\* a map lookup: a missing key reads as false
Lookup(map, h) == map[h] = "true"

\* checksums[i:end] as positions of allFiles
BatchOf(i, end) == (i + 1)..end

\* BatchCheckChecksums and the loop body, client.go:998-1010: the answer of
\* the server is stored per hash; after an error every hash of the batch is
\* stored as false.
Store(map, hashes, ok, held) ==
  [h \in Hashes |->
     IF h \notin hashes THEN map[h]
     ELSE IF ok /\ h \in held THEN "true" ELSE "false"]

\* mutant: a candidate is skipped as soon as one of its hashes exists
EitherExists(exists, exists100k) == exists \/ exists100k

\* client.go:1048-1051: `exists && exists100k`
IsDuplicate(exists, exists100k) == exists /\ exists100k

InitBatch ==
  /\ InitUpload
  /\ InitUnits
  /\ index = {}
  /\ lastCall = NoCall
  /\ disk = <<>>
  /\ placed = NoAlloc

\* client.go:953-990: the candidates are collected; with none,
\* ProcessDirectory returns. full and prefix are the hashes the server's
\* index holds.
Collected ==
  /\ ph.pc = "none"
  /\ \E n \in ListLens, full \in SUBSET Hashes, prefix \in SUBSET {0, 1} :
       ph' = [ph EXCEPT !.pc = IF n = 0 THEN "done" ELSE "full",
                        !.n = n, !.full = full, !.prefix = prefix]
  /\ UNCHANGED <<baseVars, srv, cl, snd, bb, et, rl>>

\* client.go:993-1013: one pass of the loop over the full checksums.
CheckFull ==
  /\ ph.pc = "full"
  /\ LET end == Min(ph.i + ClientBatchSize, ph.n)
         hashes == { ChecksumOf(p) : p \in BatchOf(ph.i, end) }
     IN \E ok \in BOOLEAN :
          ph' = [ph EXCEPT !.existsMap = Store(@, hashes, ok, ph.full),
                           !.sent = Append(@, [kind |-> "full", lo |-> ph.i, hi |-> end, ok |-> ok]),
                           !.i = IF ph.i + ClientBatchSize < ph.n THEN ph.i + ClientBatchSize ELSE 0,
                           !.pc = IF ph.i + ClientBatchSize < ph.n THEN "full" ELSE "prefix"]
  /\ UNCHANGED <<baseVars, srv, cl, snd, bb, et, rl>>

\* client.go:1016-1036: one pass of the loop over the 100k checksums.
CheckPrefix ==
  /\ ph.pc = "prefix"
  /\ LET end == Min(ph.i + ClientBatchSize, ph.n)
         hashes == { Checksum100kOf(p) : p \in BatchOf(ph.i, end) }
     IN \E ok \in BOOLEAN :
          ph' = [ph EXCEPT !.exists100kMap = Store(@, hashes, ok, ph.prefix),
                           !.sent = Append(@, [kind |-> "prefix", lo |-> ph.i, hi |-> end, ok |-> ok]),
                           !.i = IF ph.i + ClientBatchSize < ph.n THEN ph.i + ClientBatchSize ELSE 0,
                           !.pc = IF ph.i + ClientBatchSize < ph.n THEN "prefix" ELSE "select"]
  /\ UNCHANGED <<baseVars, srv, cl, snd, bb, et, rl>>

\* positions lo..hi of allFiles that are not skipped, in order
Selected(lo, hi, skipped) ==
  LET Kept(p) == p \notin skipped
  IN SelectSeq([k \in 1..(hi - lo + 1) |-> lo + k - 1], Kept)

\* client.go:1045-1058: the candidates are split into the skipped ones and
\* the upload list.
Select ==
  /\ ph.pc = "select"
  /\ LET skipped == { p \in 1..ph.n :
                        IsDuplicate(Lookup(ph.existsMap, ChecksumOf(p)),
                                    Lookup(ph.exists100kMap, Checksum100kOf(p))) }
     IN ph' = [ph EXCEPT !.pc = "done", !.Skipped = skipped,
                         !.filesToUpload = Selected(1, ph.n, skipped)]
  /\ UNCHANGED <<baseVars, srv, cl, snd, bb, et, rl>>

NextBatch ==
  \/ Collected
  \/ CheckFull
  \/ CheckPrefix
  \/ Select

SpecBatch == InitBatch /\ [][NextBatch]_vars

\* ------------------------------------------------------------------- SpecSend
\* processFile and SendFile: the goroutine that writes the multipart body
\* into the pipe, httpClient.Do that reads it, and the counters of
\* processFile.
ServerCodes == {200, 400, 408, 409, 429, 500, 503}

\* the bodies the server sends: JSON objects of strings, or nothing when
\* gin's Recovery answered
BodiesOf(code) == IF code = 500 THEN {"json", "empty"} ELSE {"json"}

\* processFile, client.go:652-664, once SendFile returned err (or nil).
ProcessFile(sn, err) ==
  [sn EXCEPT !.pc = "returned", !.result = IF err THEN "err" ELSE "nil",
             !.Errors = IF err THEN @ + 1 ELSE @,
             !.Uploaded = IF err THEN @ ELSE @ + 1,
             !.Processed = @ + 1]

\* the producer sends v on errChan and goes on to its deferred calls; errChan
\* holds one value and the producer sends one, so the send does not wait
Report(sn, v) ==
  [sn EXCEPT !.errChan = Append(@, v), !.producer = "deferred", !.failed = (v = "err")]

InitSend ==
  /\ InitUpload
  /\ InitUnits
  /\ index = {}
  /\ lastCall = NoCall
  /\ disk = <<>>
  /\ placed = NoAlloc

\* processFile and SendFile up to httpClient.Do, client.go:321-409: os.Open
\* fails; or both probes find the hashes and SendFile returns nil; or
\* http.NewRequest fails and the pipe's reader is closed; or the producer is
\* started and Do is called.
SendFile ==
  /\ snd.pc \in {"none", "returned"} /\ snd.producer \in {"none", "ended"}
  /\ snd.sent < MaxSends
  /\ LET sn == [NoSend EXCEPT !.sent = snd.sent + 1, !.Uploaded = snd.Uploaded,
                              !.Errors = snd.Errors, !.Processed = snd.Processed]
     IN \E opened \in BOOLEAN, known \in BOOLEAN, made \in BOOLEAN, chunks \in 1..MaxChunks :
          IF ~opened THEN snd' = ProcessFile(sn, TRUE)
          ELSE IF known THEN snd' = ProcessFile(sn, FALSE)
          ELSE IF ~made
            THEN snd' = [ProcessFile(sn, TRUE) EXCEPT !.producer = "media", !.left = chunks,
                                                !.pipe = "readerClosed"]
          ELSE snd' = [sn EXCEPT !.pc = "do", !.producer = "media", !.left = chunks,
                                 !.pipe = "open", !.transport = "sending"]
  /\ UNCHANGED <<baseVars, srv, cl, ph, bb, et, rl>>

\* the producer, client.go:348-394: a write into the pipe, which waits for
\* the reader and fails once the reader is closed; the media field, the file
\* part (a read of the file may fail), the closing boundary, then nil on
\* errChan.
ProducerWrite ==
  /\ snd.producer \in {"media", "file", "closing"}
  /\ IF snd.pipe = "readerClosed"
       THEN snd' = Report(snd, "err")
       ELSE /\ snd.transport = "sending"
            /\ IF snd.producer = "media"
                 THEN snd' = [snd EXCEPT !.producer = "file"]
               ELSE IF snd.producer = "file"
                 THEN \E read \in BOOLEAN :
                        IF ~read THEN snd' = Report(snd, "err")
                        ELSE snd' = [snd EXCEPT !.left = @ - 1,
                                                !.producer = IF snd.left = 1 THEN "closing" ELSE "file"]
               ELSE snd' = Report(snd, "nil")
  /\ UNCHANGED <<baseVars, srv, cl, ph, bb, et, rl>>

\* the producer's deferred calls, client.go:349-350: writer.Close(), which
\* writes the closing boundary when that was not done, and pipeWriter.Close().
ProducerClose ==
  /\ snd.producer = "deferred"
  /\ snd.pipe = "readerClosed" \/ ~snd.failed \/ snd.transport = "sending"
  /\ snd' = [snd EXCEPT !.producer = "ended",
                        !.pipe = IF @ = "readerClosed" THEN @ ELSE "writerClosed"]
  /\ UNCHANGED <<baseVars, srv, cl, ph, bb, et, rl>>

\* httpClient.Do: the transport read the body to its end and closes it.
TransportEOF ==
  /\ snd.transport = "sending" /\ snd.pipe = "writerClosed"
  /\ snd' = [snd EXCEPT !.transport = "awaiting", !.pipe = "readerClosed"]
  /\ UNCHANGED <<baseVars, srv, cl, ph, bb, et, rl>>

\* httpClient.Do returns an error, client.go:409-415; the transport has
\* closed the body, and SendFile closes the reader and waits on errChan.
TransportFail ==
  /\ snd.pc = "do" /\ snd.transport \in {"sending", "awaiting"}
  /\ snd' = [snd EXCEPT !.pc = "wait_err", !.transport = "failed", !.pipe = "readerClosed"]
  /\ UNCHANGED <<baseVars, srv, cl, ph, bb, et, rl>>

\* httpClient.Do returns a response, client.go:409: after the body was sent,
\* or before (the server answered without reading the body to its end; the
\* transport closes the body later).
TransportRespond ==
  /\ snd.pc = "do" /\ snd.transport \in {"sending", "awaiting"}
  /\ \E code \in ServerCodes : \E body \in BodiesOf(code) :
       /\ snd.transport = "sending" => code # 200
       /\ snd' = [snd EXCEPT !.pc = "select", !.status = code, !.body = body,
                             !.transport = IF @ = "sending" THEN "early" ELSE "done"]
  /\ UNCHANGED <<baseVars, srv, cl, ph, bb, et, rl>>

\* the transport closes the body of a request it stopped sending.
TransportCloseBody ==
  /\ snd.transport = "early"
  /\ snd' = [snd EXCEPT !.transport = "done", !.pipe = "readerClosed"]
  /\ UNCHANGED <<baseVars, srv, cl, ph, bb, et, rl>>

\* SendFile after Do's error, client.go:411-414: `<-errChan`, then the error
\* of Do is returned.
WaitErrChan ==
  /\ snd.pc = "wait_err" /\ snd.errChan # <<>>
  /\ snd' = [ProcessFile(snd, TRUE) EXCEPT !.errChan = Tail(@)]
  /\ UNCHANGED <<baseVars, srv, cl, ph, bb, et, rl>>

\* SendFile after Do's response, client.go:418-426: the select with default
\* takes what errChan holds at that moment.
SelectErrChan ==
  /\ snd.pc = "select"
  /\ IF snd.errChan # <<>>
       THEN IF Head(snd.errChan) = "err"
              THEN snd' = [ProcessFile(snd, TRUE) EXCEPT !.errChan = Tail(@)]
              ELSE snd' = [snd EXCEPT !.pc = "read", !.errChan = Tail(@)]
       ELSE snd' = [snd EXCEPT !.pc = "read"]
  /\ UNCHANGED <<baseVars, srv, cl, ph, bb, et, rl>>

\* SendFile, client.go:428-443: the body is read and decoded into a map of
\* strings; the status code is not looked at.
ReadResponse ==
  /\ snd.pc = "read"
  /\ \E read \in BOOLEAN : snd' = ProcessFile(snd, ~read \/ snd.body = "empty")
  /\ UNCHANGED <<baseVars, srv, cl, ph, bb, et, rl>>

NextSend ==
  \/ SendFile
  \/ ProducerWrite
  \/ ProducerClose
  \/ TransportEOF
  \/ TransportFail
  \/ TransportRespond
  \/ TransportCloseBody
  \/ WaitErrChan
  \/ SelectErrChan
  \/ ReadResponse

SpecSend == InitSend /\ [][NextSend]_vars

\* ----------------------------------------------------------------- SpecBuffer
\* BatchInsertBuffer, api.go:56-113, called by several goroutines; a record is
\* named by the number of the Add call that passed it.
\* mutant: flush() leaves the buffer as it is
KeepBuffer(buf) == buf

\* flush(), api.go:104: b.buffer = b.buffer[:0]
ClearBuffer(buf) == <<>>

InitBuffer ==
  /\ InitUpload
  /\ InitUnits
  /\ index = {}
  /\ lastCall = NoCall
  /\ disk = <<>>
  /\ placed = NoAlloc

\* a goroutine calls Add(media) or Flush(), api.go:73, 88
CallBuffer(c) ==
  /\ bb.g[c].pc = "idle"
  /\ \E op \in {"Add", "Flush"} :
       /\ op = "Add" => bb.added < MaxAdds
       /\ bb' = [bb EXCEPT !.g[c] = [pc |-> "lock", op |-> op, batch |-> <<>>,
                                     rec |-> IF op = "Add" THEN bb.added + 1 ELSE 0],
                           !.added = IF op = "Add" THEN @ + 1 ELSE @]
  /\ UNCHANGED <<baseVars, srv, cl, ph, snd, et, rl>>

\* b.mu.Lock() and what follows it under the mutex up to flush(),
\* api.go:74-82, 89-91: Add appends and calls flush() when the buffer is
\* full, Flush calls flush().
LockBuffer(c) ==
  /\ bb.g[c].pc = "lock"
  /\ bb.mu = 0
  /\ LET b == IF bb.g[c].op = "Add" THEN Append(bb.buffer, bb.g[c].rec) ELSE bb.buffer
     IN bb' = [bb EXCEPT !.mu = c, !.buffer = b,
                         !.g[c].pc = IF bb.g[c].op = "Flush" \/ Len(b) >= bb.batchSize
                                       THEN "flush" ELSE "unlock"]
  /\ UNCHANGED <<baseVars, srv, cl, ph, snd, et, rl>>

\* flush(), api.go:95-107: nothing to do for an empty buffer; else the buffer
\* is copied and cleared and the mutex released.
FlushBuffer(c) ==
  /\ bb.g[c].pc = "flush"
  /\ IF bb.buffer = <<>>
       THEN bb' = [bb EXCEPT !.g[c].pc = "unlock"]
       ELSE bb' = [bb EXCEPT !.g[c].batch = bb.buffer, !.buffer = ClearBuffer(@),
                             !.mu = 0, !.g[c].pc = "db"]
  /\ UNCHANGED <<baseVars, srv, cl, ph, snd, et, rl>>

\* flush(), api.go:108: engine.DB.AddFilesToDBBatch(batch, b.batchSize)
InsertBuffer(c) ==
  /\ bb.g[c].pc = "db"
  /\ bb' = [bb EXCEPT !.handed = Append(@, bb.g[c].batch), !.g[c].batch = <<>>,
                      !.g[c].pc = "relock"]
  /\ UNCHANGED <<baseVars, srv, cl, ph, snd, et, rl>>

\* flush(), api.go:109: b.mu.Lock() after the database call
RelockBuffer(c) ==
  /\ bb.g[c].pc = "relock"
  /\ bb.mu = 0
  /\ bb' = [bb EXCEPT !.mu = c, !.g[c].pc = "unlock"]
  /\ UNCHANGED <<baseVars, srv, cl, ph, snd, et, rl>>

\* the deferred b.mu.Unlock() of Add and Flush, api.go:75, 90
UnlockBuffer(c) ==
  /\ bb.g[c].pc = "unlock"
  /\ bb' = [bb EXCEPT !.mu = 0, !.g[c] = [pc |-> "idle", op |-> "none", rec |-> 0, batch |-> <<>>]]
  /\ UNCHANGED <<baseVars, srv, cl, ph, snd, et, rl>>

NextBuffer ==
  \/ \E c \in Callers : CallBuffer(c)
  \/ \E c \in Callers : LockBuffer(c)
  \/ \E c \in Callers : FlushBuffer(c)
  \/ \E c \in Callers : InsertBuffer(c)
  \/ \E c \in Callers : RelockBuffer(c)
  \/ \E c \in Callers : UnlockBuffer(c)

SpecBuffer == InitBuffer /\ [][NextBuffer]_vars

\* ---------------------------------------------------------------- SpecLimiter
\* the RateLimiter alone, api.go:135-176: the bucket is filled to its
\* capacity, the ticker refills it, Allow takes a token when there is one.
InitLimiter ==
  /\ InitUpload
  /\ InitUnits
  /\ index = {}
  /\ lastCall = NoCall
  /\ disk = <<>>
  /\ placed = NoAlloc

\* refill, api.go:157-166: one tick of the ticker
Tick ==
  /\ rl.ticks < MaxTicks
  /\ tokens' = Refill(tokens)
  /\ rl' = [rl EXCEPT !.ticks = @ + 1]
  /\ UNCHANGED uploadVars
  /\ UNCHANGED <<index, lastCall, disk, placed, walk, hasher, queue, req, worker, srv, cl, ph, snd, bb, et>>

\* Allow, api.go:169-176: a token is received and Allow returns true, or
\* there is none and it returns false
AllowCall ==
  /\ rl.allowed + rl.denied < MaxCalls
  /\ IF tokens > 0
       THEN tokens' = tokens - 1 /\ rl' = [rl EXCEPT !.allowed = @ + 1]
       ELSE UNCHANGED tokens /\ rl' = [rl EXCEPT !.denied = @ + 1]
  /\ UNCHANGED uploadVars
  /\ UNCHANGED <<index, lastCall, disk, placed, walk, hasher, queue, req, worker, srv, cl, ph, snd, bb, et>>

NextLimiter ==
  \/ Tick
  \/ AllowCall

SpecLimiter == InitLimiter /\ [][NextLimiter]_vars

\* ------------------------------------------------------------------- SpecExif
\* GetExiftool, exiftool.go:15-33, called by several goroutines. An Exiftool
\* value is named by a number from 1; inner[i] tells whether its field et
\* has been set by exiftool.NewExiftool().
InitExif ==
  /\ InitUpload
  /\ InitUnits
  /\ index = {}
  /\ lastCall = NoCall
  /\ disk = <<>>
  /\ placed = NoAlloc

\* a panic that nothing recovers has ended the process
Panicked == \E c \in Getters : et.g[c].pc = "panicked"

\* exiftool.go:17: a caller reads the global without the lock; it returns
\* the value it finds, exiftool.go:32, or goes on to the lock.
CheckNil(c) ==
  /\ ~Panicked
  /\ et.g[c].pc = "idle"
  /\ IF et.et = 0
       THEN et' = [et EXCEPT !.g[c].pc = "lock"]
       ELSE et' = [et EXCEPT !.g[c] = [pc |-> "returned", got |-> et.et]]
  /\ UNCHANGED <<baseVars, srv, cl, ph, snd, bb, rl>>

\* exiftool.go:18-21: lock.Lock(), then et = &Exiftool{}; the global is not
\* looked at again.
LockAndAssign(c) ==
  /\ ~Panicked
  /\ et.g[c].pc = "lock"
  /\ et.lock = 0
  /\ et' = [et EXCEPT !.lock = c, !.et = Len(et.inner) + 1, !.inner = Append(@, FALSE),
                      !.g[c].pc = "create"]
  /\ UNCHANGED <<baseVars, srv, cl, ph, snd, bb, rl>>

\* exiftool.go:22-29: et.et, err = exiftool.NewExiftool(); an error panics,
\* and the deferred Unlock runs.
NewExiftool(c) ==
  /\ ~Panicked
  /\ et.g[c].pc = "create"
  /\ \E ok \in BOOLEAN :
       IF ok
         THEN et' = [et EXCEPT !.inner[et.et] = TRUE, !.created = @ + 1, !.g[c].pc = "unlock"]
         ELSE et' = [et EXCEPT !.lock = 0, !.g[c].pc = "panicked"]
  /\ UNCHANGED <<baseVars, srv, cl, ph, snd, bb, rl>>

\* exiftool.go:32 and 19: return et, and the deferred lock.Unlock()
ReturnExif(c) ==
  /\ ~Panicked
  /\ et.g[c].pc = "unlock"
  /\ et' = [et EXCEPT !.lock = 0, !.g[c] = [pc |-> "returned", got |-> et.et]]
  /\ UNCHANGED <<baseVars, srv, cl, ph, snd, bb, rl>>

NextExif ==
  \/ \E c \in Getters : CheckNil(c)
  \/ \E c \in Getters : LockAndAssign(c)
  \/ \E c \in Getters : NewExiftool(c)
  \/ \E c \in Getters : ReturnExif(c)

SpecExif == InitExif /\ [][NextExif]_vars

\* ------------------------------------------------------------------ claims
\* The rename of request r: the step that publishes its temp file.
Renames(r) == pc[r] = "rename" /\ pc'[r] = "done" /\ resp'[r] = 200

\* C1: at the moment an upload's temp file is renamed to its canonical path,
\* the index contains a record with that upload's full hash.
C1_IndexThenPublish ==
  [][\A r \in Uploads : Renames(r) => ChecksumExists(index, media[r].checksum)]_vars

\* Paths of the save-root, temp files included, whose bytes are c.
PathsHolding(c) == { p \in DOMAIN fs : Files[p] = c }

Published == { p \in DOMAIN fs : ~p.tmp }

RowsOf(h) == { row \in index : row.checksum = h }

Honest(r) == media[r].checksum = Md5(media[r].content)

\* C2: every file under the save-root whose name does not end in .download
\* has exactly one record whose full_hash is the hash of the file's bytes.
C2_PublishedFileHasOneRecord ==
  \A p \in Published : Cardinality(RowsOf(Md5(Files[p]))) = 1

\* Requests r and s raced: same bytes, declared truthfully, in flight
\* together, both answered, the content uploaded by nobody else, and nothing
\* failed.
Raced(r, s) ==
  /\ r # s /\ {r, s} \in conc
  /\ pc[r] = "done" /\ pc[s] = "done"
  /\ media[r].content = media[s].content
  /\ Honest(r) /\ Honest(s)
  /\ \A t \in Uploads \ {r, s} : media[t].content # media[r].content
  /\ faults = 0 /\ crashes = 0

\* C3: two concurrent uploads of identical, never stored content end with
\* exactly one 200 and one 409, one record for the hash, one file holding the
\* content under the save-root, and no temp file of the loser.
C3_DuplicateRaceOneWinner ==
  \A r, s \in Uploads :
    Raced(r, s) =>
      /\ {resp[r], resp[s]} = {200, 409}
      /\ Cardinality(RowsOf(Md5(media[r].content))) = 1
      /\ Cardinality(PathsHolding(media[r].content)) = 1
      /\ Tmp(r) \notin DOMAIN fs /\ Tmp(s) \notin DOMAIN fs

Arrived == { r \in Uploads : pc[r] # "idle" }

\* One request after another, truthfully declared, nothing failing.
Sequential == conc = {} /\ faults = 0 /\ crashes = 0 /\ \A r \in Arrived : Honest(r)

Earlier(r) == { s \in Uploads : s < r /\ media[s].content = media[r].content }

\* C5: when the same bytes are submitted one request after another, the
\* first request is answered 200 and every later one 409, and what is stored
\* is one file and one record per content however often it was submitted.
C5_SequentialResubmission ==
  Sequential =>
    /\ \A r \in Uploads : pc[r] = "done" => resp[r] = (IF Earlier(r) = {} THEN 200 ELSE 409)
    /\ InFlight = {} =>
         \A c \in Contents :
           LET n == IF \E r \in Arrived : media[r].content = c THEN 1 ELSE 0 IN
             /\ Cardinality(PathsHolding(c)) = n
             /\ Cardinality(RowsOf(Md5(c))) = n
             /\ PathsHolding(c) \subseteq Published

C5_Witness ==
  /\ Sequential
  /\ \E r, s \in Uploads : r < s /\ resp[r] = 200 /\ resp[s] = 409
       /\ media[r].content = media[s].content /\ media[r].time # media[s].time

\* C6: while the server is down every .download file belongs to an upload
\* whose record was never inserted, so that unlinking it at startup never
\* removes the only copy of content the index records as stored.
C6_TempFilesHaveNoRecord ==
  ~up =>
    \A p \in DOMAIN fs :
      p.tmp =>
        /\ \A r \in Arrived : (newFilename[r] # NoPath /\ Tmp(r) = p) => Row(media[r]) \notin index
        /\ ChecksumExists(index, Md5(Files[p])) => \E q \in Published : Files[q] = Files[p]

\* Request r was killed by a crash after its temp file was created and before
\* the verification, its content stored by nobody up to then.
KilledWriting(r) ==
  /\ lostAt[r] = "write"
  /\ \A s \in Arrived \ {r} : epoch[s] <= epoch[r] => media[s].content # media[r].content

After(r) == { s \in Arrived : epoch[s] > epoch[r] }

\* Request s is the upload that follows r's crash: same bytes, truthful, on
\* its own, answered.
Retries(s, r) ==
  /\ s \in After(r) /\ pc[s] = "done"
  /\ media[s].content = media[r].content /\ Honest(s)
  /\ \A t \in After(r) \ {s} : media[t].content # media[r].content
  /\ \A t \in Uploads : {s, t} \notin conc
  /\ faults = 0

Batched == lastCall.op = "InsertBatch"

\* the call ran as one transaction
OneTransaction == Len(lastCall.batch) <= EffectiveBatchSize(lastCall.bs)

Positions == DOMAIN lastCall.batch

\* Row j did not fail and its full hash was neither in the index nor in an
\* earlier row of the batch that did not fail: the row INSERT OR IGNORE adds.
Fresh(j) ==
  /\ j \notin lastCall.rowf
  /\ ~ChecksumExists(lastCall.before, lastCall.batch[j].checksum)
  /\ \A i \in 1..(j - 1) :
       i \in lastCall.rowf \/ lastCall.batch[i].checksum # lastCall.batch[j].checksum

C9_ReportsPerInput ==
  Batched =>
    \A j \in Positions : (~lastCall.err) <=> (lastCall.rowres[j] = "inserted")

\* Files of `before` that carry the same formatted time and extension as p.
SameName(before, p) ==
  { q \in DOMAIN before : q.dir = p.dir /\ q.base = p.base /\ q.ext = p.ext }

\* C10: with one allocation at a time, the path GetNewFilename returns is
\* <root>/YYYY-MM/YYYY-MM-DD HH.MM.SS[.N].<ext> of the record's creation_time
\* with N the smallest number whose path is free: every smaller N is
\* occupied, the returned path is not, and N counts the files placed before
\* under that time and extension.
C10_SmallestFreeSuffix ==
  placed.op = "placed" =>
    LET p == placed.path
        t == placed.m.time
    IN  /\ p.dir = <<t.ym>> /\ p.base = <<t.ym, t.ds>> /\ p.ext = placed.m.ext /\ ~p.tmp
        /\ p.num >= 0
        /\ p \notin DOMAIN placed.before
        /\ \A n \in 0..(p.num - 1) : [p EXCEPT !.num = n] \in DOMAIN placed.before
        /\ p.num = Cardinality(SameName(placed.before, p))
        /\ disk[p] = placed.m.content

C10_Witness ==
  /\ placed.op = "placed" /\ placed.path.num = 2
  /\ \A q \in SameName(placed.before, placed.path) : placed.before[q] # placed.m.content
  /\ \E q \in SameName(placed.before, placed.path) : q.num = 1

\* The occupied candidates GetNewFilename of record m looked at, or would
\* look at, on the way to path p.
Candidates(before, m, p) ==
  { q \in DOMAIN before : q = PathOf(m.time, m.ext, q.num) /\ q.num <= p.num }

\* C11: an allocation that meets an occupied candidate whose bytes have the
\* record's full hash (the digest of the fleet, MD5, as Media.Checksum and the
\* upload handler compute it) panics and allocates no further suffix, and a
\* panic is raised only at such a candidate.
C11_PanicOnLostRow ==
  /\ placed.op = "placed" =>
       \A q \in Candidates(placed.before, placed.m, placed.path) :
         Md5(placed.before[q]) # placed.m.checksum
  /\ placed.op = "panic" => Md5(placed.before[placed.path]) = placed.m.checksum

\* The elements of the save-root lead to path p: p lies in the save-root.
Inside(p) ==
  LET root == Clean(SaveDir)
      segs == Clean(p)
  IN  Len(root) < Len(segs) /\ SubSeq(segs, 1, Len(root)) = root

\* C12: whatever filename the client supplies, a path GetNewFilename lets
\* pass lies inside the save-root once "." and ".." are resolved, and a
\* candidate is rejected as a path traversal only if it lies outside.
C12_PathInsideSaveRoot ==
  /\ walk.op = "returned" => Inside(walk.path)
  /\ walk.op = "traversal" => ~Inside(walk.path)

C12_Witness ==
  /\ walk.op = "returned" /\ Inside(walk.path)
  /\ \E i \in 1..(Len(walk.name) - 3) :
       SubSeq(walk.name, i, i + 3) = <<"/", ".", ".", "/">>
  /\ Ext(walk.name) = <<"a">>

\* C13: for a stream of at most 100 KiB, the empty one included, every
\* prefix-hash computation succeeds and yields the stream's full hash: the
\* upload handler's, the client's checksum100k and Checksum(filename, true).
C13_ShortStreamPrefixIsFull ==
  hasher.len <= BUFSIZE =>
    /\ hasher.state = "summed" => hasher.actualChecksum100k = hasher.actualChecksum
    /\ hasher.state = "filed" =>
         /\ ~hasher.client.err /\ hasher.client.sum = hasher.whole.sum
         /\ ~hasher.short.err /\ hasher.short.sum = hasher.whole.sum

\* C14: however the stream is cut into reads of at most 32 KiB, the full
\* digest is over every byte read and the prefix digest over the first
\* min(L, 100 KiB) of them, at every turn of the loop and at its end; the
\* record's prefix hash is the computed one, whatever was declared.
C14_FusedHasher ==
  /\ hasher.state \in {"copy", "summed"} =>
       /\ hasher.full = Bytes(0, hasher.bytesRead)
       /\ hasher.pre = Bytes(0, Min(hasher.bytesRead, BUFSIZE))
  /\ hasher.state = "summed" =>
       /\ hasher.actualChecksum = Md5(Bytes(0, hasher.len))
       /\ hasher.actualChecksum100k = Md5(Bytes(0, Min(hasher.len, BUFSIZE)))
       /\ hasher.checksum100k = hasher.actualChecksum100k

C14_Witness ==
  /\ hasher.state = "summed" /\ hasher.len > BUFSIZE /\ hasher.crossed
  /\ hasher.declared100k # hasher.actualChecksum100k
  /\ hasher.actualChecksum100k # hasher.actualChecksum

\* ---- what one step of a request does to the save-root and the index
\* the files at canonical paths, with their bytes
PublishedFiles == [p \in Published |-> Files[p]]

\* request r leaves step `from` in this step (a crash aside)
Leaves(r, from) == pc[r] \in from /\ pc'[r] \notin {pc[r], "lost"}

\* the removal of r's temp file was tried in this step and failed
RemovalFailed(r) == Tmp(r) \in DOMAIN fs /\ fs' = fs /\ faults' > faults

\* C15: a request whose bytes do not have the declared full hash ends the
\* write step answered 400 (500 if the write itself failed); the step leaves
\* the index and the published files as they were and the temp file is gone,
\* unless its removal failed.
C15_MismatchChangesNothing ==
  [][\A r \in Uploads :
       (Leaves(r, {"write"}) /\ Md5(media[r].content) # media[r].checksum) =>
         /\ pc'[r] = "done" /\ resp'[r] \in {400, 500}
         /\ resp'[r] = 500 => faults' > faults
         /\ index' = index
         /\ PublishedFiles' = PublishedFiles
         /\ Tmp(r) \in DOMAIN fs' => RemovalFailed(r)]_vars

FailsBeforeRename(r) ==
  Leaves(r, {"write", "probe", "add_db", "flush_db"}) /\ pc'[r] = "done" /\ resp'[r] # 200

Held == { worker[w] : w \in Workers } \ {0}

Queued == { queue[i] : i \in DOMAIN queue }

\* C16: a request whose form cannot be parsed, that lacks the media part,
\* whose media JSON cannot be parsed or that lacks the file part is answered
\* 400 and never enters the queue.
C16_MalformedIs400 ==
  \A r \in Malformed :
    /\ req[r].pc = "done" /\ req[r].resp = 400
    /\ req[r].enq = "none" /\ r \notin Queued \cup Held

\* worker w's call of Allow returns in this step
Allows(w) ==
  /\ worker[w] # 0
  /\ req[worker[w]].pc = "taken"
  /\ req'[worker[w]].pc # "taken"

\* C19: the bucket holds between 0 and capacity tokens; a worker that calls
\* Allow can always take the step; Allow takes exactly one token and lets the
\* request through when there is a token, and leaves the bucket as it is and
\* turns the request away when there is none.
C19_TokenBucket ==
  /\ [](tokens \in 0..TokenCap)
  /\ [](\A w \in Workers : (worker[w] # 0 /\ req[worker[w]].pc = "taken") => ENABLED Allow(w))
  /\ [][\A w \in Workers :
          Allows(w) =>
            IF tokens > 0
              THEN tokens' = tokens - 1 /\ req'[worker[w]].pc = "processing"
              ELSE tokens' = tokens /\ req'[worker[w]].pc = "answered"
                   /\ (req[worker[w]].resp = 0 => req'[worker[w]].resp = 429)]_vars

C19_Witness ==
  /\ tokens = TokenCap
  /\ \E r, s \in Requests :
       /\ req[r].pc = "done" /\ req[r].resp = 429
       /\ req[s].pc = "done" /\ req[s].resp = 200 /\ s < r

\* C20: the queue holds at most 2*W requests and at most W requests are with
\* the workers; Enqueue returned true exactly for the requests that entered
\* the queue; a non-blocking Enqueue never waits; a request whose Enqueue
\* returned false is finished, answered 503, and neither in the queue nor
\* with a worker.
C20_BoundedQueue ==
  /\ Len(queue) <= 2 * UploadWorkers
  /\ Cardinality({ r \in Requests : req[r].pc \in {"taken", "processing", "answered"} }) <= UploadWorkers
  /\ \A r \in Requests :
       /\ req[r].pc \in {"queued", "taken", "processing", "answered"} => req[r].enq = "true"
       /\ req[r].enq = "true" => req[r].pc \in {"queued", "taken", "processing", "answered", "done"}
       /\ req[r].pc = "queued" <=> r \in Queued
       /\ req[r].pc \in {"taken", "processing", "answered"} <=> r \in Held
       /\ req[r].pc = "waiting" => req[r].blocking /\ req[r].enq = "none"
       /\ req[r].enq = "false" =>
            /\ req[r].pc = "done" /\ req[r].resp = 503
            /\ r \notin Queued \cup Held

C20_Witness ==
  /\ Len(queue) = 2 * UploadWorkers
  /\ \E r, s \in Requests :
       /\ req[r].enq = "false" /\ ~req[r].blocking /\ req[r].resp = 503
       /\ req[s].enq = "false" /\ req[s].blocking /\ req[s].resp = 503

\* ---- the workers
\* worker w takes the step that ends its handling of a request
Signals(w) ==
  /\ worker[w] # 0
  /\ req[worker[w]].pc = "answered"
  /\ req'[worker[w]].pc = "done"

\* C21: a request that Allow turns away is answered 429 by the worker, its
\* completion is signalled and the upload handler does not run for it; a
\* request that Allow lets through has the upload handler run exactly once
\* before its completion is signalled.
C21_DeniedNeverProcessed ==
  /\ [](\A r \in Requests :
          /\ req[r].allowed = "none" => req[r].runs = 0
          /\ req[r].allowed = "no" =>
                /\ req[r].runs = 0
                /\ req[r].pc \in {"answered", "done"}
                /\ req[r].resp \in {429, 408}
          /\ req[r].allowed = "yes" =>
                /\ req[r].pc = "processing" => req[r].runs = 0
                /\ req[r].pc \in {"answered", "done"} => req[r].runs = 1
          /\ req[r].signals = 1 => req[r].allowed # "none")
  /\ [][\A w \in Workers :
          /\ Allows(w) /\ tokens = 0 =>
                /\ req'[worker[w]].allowed = "no"
                /\ req[worker[w]].resp = 0 => req'[worker[w]].resp = 429
          /\ Signals(w) =>
                /\ req'[worker[w]].signals = 1
                /\ req[worker[w]].runs = (IF req[worker[w]].allowed = "yes" THEN 1 ELSE 0)
                /\ req'[worker[w]].runs = req[worker[w]].runs]_vars

C21_Witness ==
  \E r, s \in Requests :
    /\ req[r].pc = "done" /\ req[r].allowed = "no" /\ req[r].resp = 429
    /\ req[r].runs = 0 /\ req[r].signals = 1
    /\ req[s].pc = "done" /\ req[s].allowed = "yes" /\ req[s].resp = 200
    /\ req[s].runs = 1 /\ req[s].signals = 1

\* the requests Enqueue returned true for
Accepted == { r \in Requests : req[r].enq = "true" }

\* the number of places, in the queue or with a worker, where request r is
Places(r) ==
  Cardinality({ i \in DOMAIN queue : queue[i] = r })
    + Cardinality({ w \in Workers : worker[w] = r })

\* C22: a request that Enqueue accepted is in the queue or with one worker
\* until its completion is signalled, and nowhere afterwards; it gets one
\* signal on its response channel, and only after the worker wrote its
\* answer; the send is possible whenever the worker reaches it, also when the
\* handler answered 408 and no longer receives.
C22_OneSignalAfterResponse ==
  /\ [](\A r \in Requests :
          /\ req[r].signals <= 1
          /\ r \notin Accepted => req[r].signals = 0 /\ Places(r) = 0
          /\ r \in Accepted =>
                /\ Places(r) = (IF req[r].pc = "done" THEN 0 ELSE 1)
                /\ req[r].signals = (IF req[r].pc = "done" THEN 1 ELSE 0)
                /\ req[r].signals = 1 => req[r].resp # 0)
  /\ [](\A w \in Workers :
          (worker[w] # 0 /\ req[worker[w]].pc = "answered") => ENABLED Signal(w))
  /\ [][\A w \in Workers :
          Signals(w) => req[worker[w]].resp # 0 /\ worker'[w] = 0]_vars

C22_Witness ==
  \E r, s \in Requests :
    /\ req[r].pc = "done" /\ req[r].resp = 408 /\ req[r].signals = 1 /\ req[r].runs = 1
    /\ req[s].pc = "done" /\ req[s].resp = 200 /\ req[s].signals = 1

\* ---- the server process
\* C23: after an interrupt the server stops accepting, waits for the
\* handlers for at most the timeout, then closes the queue and waits for the
\* workers and stops the ticker, then flushes the insert buffer, then closes
\* the index, each step after the one before; the process that exits with 0
\* has done all of them.
C23_ShutdownInOrder ==
  /\ srv.pc \in {"http_shutdown", "queue_shutdown", "drain", "flush", "exiftool"} => ~srv.accepting
  /\ srv.pc \in {"queue_shutdown", "drain"} => (srv.timedOut \/ srv.waiting = 0)
  /\ srv.pc \in {"flush", "exiftool"} =>
       ~srv.queueOpen /\ srv.workers = 0 /\ srv.queued = 0 /\ Busy = 0 /\ ~srv.ticker
  /\ srv.pc = "exiftool" => srv.buffered = 0
  /\ srv.exit = <<"exit", 0>> =>
       /\ ~srv.accepting /\ ~srv.queueOpen /\ srv.workers = 0 /\ ~srv.ticker
       /\ srv.buffered = 0
       /\ srv.dbClosed

\* C24: the index is opened at most three times, with 100 ms and then 200 ms
\* between the attempts; when all three failed the server has exited with
\* code 1 and accepted no request.
C24_OpenFailureFatalAtStartup ==
  /\ srv.attempts <= MaxRetries
  /\ srv.db = "failed" =>
       /\ srv.attempts = MaxRetries
       /\ srv.slept = <<RetryDelay, 2 * RetryDelay>>
       /\ srv.pc = "exited" /\ srv.exit = <<"exit", 1>>
       /\ srv.served = 0 /\ ~srv.accepting

\* ---- the client, phase 1
\* the candidates the hashing workers produced: sent on resultsChan or about
\* to be
Hashed ==
  { cl.resultsChan[i] : i \in DOMAIN cl.resultsChan }
    \cup { cl.allFiles[i] : i \in DOMAIN cl.allFiles }
    \cup UNION { { cl.hash[w].out[i] : i \in DOMAIN cl.hash[w].out } : w \in ScanWorkers }

C26_UnrecognizedSkipped ==
  \A c \in Hashed : IsRecognized(c.Media.ext)

\* the creation time the priority list of the candidate's kind gives: the
\* first field present, the modification time when there is none or when its
\* value cannot be parsed
ExpectedDate(c) ==
  LET fields == IF IsImage(c.Media.ext) THEN ImageFields ELSE VideoFields
      present == { i \in DOMAIN fields : \E v \in {"ok", "bad"} : <<fields[i], v>> \in c.Media.Metadata }
      first == CHOOSE j \in present : \A k \in present : j <= k
  IN IF present = {} \/ <<fields[first], "bad">> \in c.Media.Metadata
       THEN ModTime(c.Path)
       ELSE Parsed(fields[first])

\* C27: every candidate of a recognized kind, whatever its size, carries the
\* creation time its metadata or, failing that, its modification time gives,
\* and never the zero time.
C27_CreationTimeSet ==
  \A c \in Hashed :
    IsRecognized(c.Media.ext) =>
      /\ c.Media.CreationDate # ZeroTime
      /\ c.Media.CreationDate = ExpectedDate(c)

\* ---- the client, phases 2 and 3
\* the batches of one kind that were sent
Batches(kind) == { i \in DOMAIN ph.sent : ph.sent[i].kind = kind }

\* the hash of position p that a batch of this kind carries
HashOf(kind, p) == IF kind = "full" THEN ChecksumOf(p) ELSE Checksum100kOf(p)

\* the server's index holds hash h
Holds(kind, h) == IF kind = "full" THEN h \in ph.full ELSE h \in ph.prefix

\* batch i carries hash h
Carries(i, h) ==
  \E p \in BatchOf(ph.sent[i].lo, ph.sent[i].hi) : HashOf(ph.sent[i].kind, p) = h

\* some answer reported hash h as existing
Reported(kind, h) ==
  \E i \in Batches(kind) : ph.sent[i].ok /\ Carries(i, h) /\ Holds(kind, h)

\* the last batch that carried hash h was answered, and reported h as existing
ReportedLast(kind, h) ==
  \E i \in Batches(kind) :
    /\ ph.sent[i].ok /\ Carries(i, h) /\ Holds(kind, h)
    /\ \A j \in Batches(kind) : (j > i) => ~Carries(j, h)

\* every batch has at most 100 hashes and every position of the list is in
\* exactly one batch of each kind
Partitioned ==
  \A kind \in {"full", "prefix"} :
    /\ \A i \in Batches(kind) : ph.sent[i].hi - ph.sent[i].lo \in 1..ClientBatchSize
    /\ \A p \in 1..ph.n :
         Cardinality({ i \in Batches(kind) : p \in BatchOf(ph.sent[i].lo, ph.sent[i].hi) }) = 1

C29_FailedUploadsCounted ==
  /\ snd.Uploaded + snd.Errors = snd.Processed
  /\ snd.pc \in {"none", "returned"} => snd.Processed = snd.sent
  /\ (snd.pc = "returned" /\ (snd.transport = "failed" \/ snd.status \in {400, 429, 500, 503})) =>
       snd.result = "err"

\* processFile has returned for the last file and the producer has ended
Finished ==
  /\ snd.sent = MaxSends
  /\ snd.pc = "returned"
  /\ snd.producer \in {"none", "ended"}

\* C30: the producer and the transport never wait for each other for ever:
\* until SendFile has returned and the producer has ended, one of them can
\* take a step; and when the producer ended with an error, SendFile
\* returned an error.
C30_PipeNeverDeadlocks ==
  /\ Finished \/ ENABLED NextSend
  /\ (snd.pc = "returned" /\ snd.producer = "ended" /\ snd.failed) => snd.result = "err"

\* ---- the client, termination of phase 1
\* C31: once the context is cancelled, phase 1 comes to its end: until
\* ProcessDirectory has passed both of its waits, some goroutine of the
\* pipeline can take a step (none of them waits for ever on a channel).
C31_CancelEndsPhase1 ==
  cl.cancelled => (cl.pc = "phase2" \/ ENABLED NextCancel)

\* every directory sent to dirChan was received and its entries were handled
AllScanned ==
  /\ cl.walker = "waiting"
  /\ cl.dirChan = <<>>
  /\ \A w \in ScanWorkers : cl.scan[w].pc = "range"

\* every scanning worker waits to send a subdirectory into the full dirChan
AllSendingDirs ==
  \A w \in ScanWorkers :
    /\ cl.scan[w].pc = "entries"
    /\ Head(cl.scan[w].entries).dir
    /\ Len(cl.dirChan) = ChanCap

\* C32: without cancellation parallelWalkDir returns: when every directory
\* has been scanned, dirChan is closed or parallelWalkDir can go on to close
\* it, and the scanning workers are never all waiting to send a
\* subdirectory into the full dirChan.
C32_WalkReturns ==
  /\ AllScanned => (cl.dirClosed \/ ENABLED ParallelWalkDir)
  /\ ~AllSendingDirs

\* C33: a hashing worker that has a candidate to send to resultsChan can send
\* it, however many candidates there are.
C33_ResultsSent ==
  \A w \in ScanWorkers : cl.hash[w].pc = "send" => ENABLED ResultSend(w)

\* ---- the server, concurrent allocation
\* C34: two uploads in flight never hold the same canonical path, and so
\* never the same temp path.
C34_InFlightPathsDiffer ==
  \A r, s \in InFlight :
    (r # s /\ newFilename[r] # NoPath /\ newFilename[s] # NoPath) =>
      (newFilename[r] # newFilename[s] /\ Tmp(r) # Tmp(s))

\* ---- the batch buffer
\* the records passed to Add so far that the buffer has taken in
Appended == (1..bb.added) \ { bb.g[c].rec : c \in { d \in Callers : bb.g[d].pc = "lock" } }

\* how often record k occurs in the sequence q
Occurs(q, k) == Cardinality({ i \in DOMAIN q : q[i] = k })

\* how often record k occurs in the batches of the sequence qs
OccursIn(qs, k) == Cardinality({ <<i, j>> \in (DOMAIN qs) \X (1..MaxAdds) : j \in DOMAIN qs[i] /\ qs[i][j] = k })

\* C35: every record Add took in is in the buffer, in the copy a flush() is
\* about to hand over, or was handed to the index, and in all of these
\* together once; the buffer holds at most batchSize records; and the
\* goroutine whose flush() is in the database call does not hold the mutex.
C35_HandedOnce ==
  /\ \A k \in Appended :
       Occurs(bb.buffer, k) + OccursIn([c \in Callers |-> bb.g[c].batch], k) + OccursIn(bb.handed, k) = 1
  /\ \A k \in Appended : OccursIn(bb.handed, k) <= 1
  /\ Len(bb.buffer) <= bb.batchSize
  /\ \A c \in Callers : bb.g[c].pc = "db" => bb.mu # c

\* an Add filled the buffer and handed it over, a Flush handed over a shorter
\* one, while another goroutine held the mutex during a database call
C35_Witness ==
  /\ \E i \in DOMAIN bb.handed : Len(bb.handed[i]) = bb.batchSize
  /\ \E i \in DOMAIN bb.handed : Len(bb.handed[i]) < bb.batchSize
  /\ \E c, d \in Callers : bb.g[c].pc = "db" /\ bb.mu = d /\ d # c

\* ---- the upload queue, responses
\* pushFile wrote the answer of its 5-minute wait to the request's context
HandlerWrote408(r) == req[r].resp = 408

\* the worker wrote an answer to the request's context: the 429 of the rate
\* limiter or the answer of processUploadRequest
WorkerWrote(r) == req[r].allowed = "no" \/ req[r].runs > 0

\* C36: a request is not answered by its handler and by the worker both: when
\* pushFile gave up waiting and answered 408, the worker writes nothing to
\* the request's context.
C36_OneResponse ==
  \A r \in Requests : ~(HandlerWrote408(r) /\ WorkerWrote(r))

\* ---- the server, shutdown of the queue
\* C37: no handler sends on the upload queue after Shutdown closed it, and
\* when Shutdown has returned no request is left in the queue or with a
\* worker.
C37_NoSendAfterClose ==
  /\ srv.sentClosed = 0
  /\ srv.pc \in {"flush", "exiftool"} => (srv.queued = 0 /\ Busy = 0)

\* ---- the rate limiter
\* C39: the calls of Allow that returned true are at most the capacity plus
\* the ticks that have fired, counting the tokens still in the bucket as
\* well; the bucket never holds more than its capacity; a tick adds at most
\* one token, and none to a full bucket.
C39_AllowedWithinBudget ==
  /\ [](rl.allowed + tokens <= TokenCap + rl.ticks)
  /\ [](rl.allowed <= TokenCap + rl.ticks)
  /\ [](tokens <= TokenCap)
  /\ [][rl.ticks' = rl.ticks + 1 =>
          /\ tokens' <= tokens + 1
          /\ tokens = TokenCap => tokens' = tokens]_vars

\* the budget was used up: ticks have fired, as many calls were allowed as
\* capacity plus ticks, and a call was denied
C39_Witness ==
  /\ rl.ticks > 1
  /\ rl.allowed = TokenCap + rl.ticks
  /\ rl.denied > 0
  /\ tokens = 0

\* ---- the client, the walk
\* the entries of the listing sr.entries that its scanning worker has not
\* handled yet
Remaining(sr) ==
  IF \E w \in ScanWorkers : cl.scan[w].pc = "entries" /\ cl.scan[w].dir = sr.dir
    THEN Len(cl.scan[CHOOSE w \in ScanWorkers : cl.scan[w].pc = "entries" /\ cl.scan[w].dir = sr.dir].entries)
    ELSE 0

\* the path of entry i of the listing sr.entries
PathOfEntry(sr, i) == EntryPath(sr.dir, Len(sr.entries) - i + 1)

C40_CreatedOnceAndInitialised ==
  /\ et.created <= 1
  /\ Len(et.inner) <= 1
  /\ \A c \in Getters : et.g[c].pc = "returned" => et.inner[et.g[c].got]

====
